---- MODULE Spec2Model ----
(***************************************************************************)
(* Verification model of the Fake-News-Detection prototypes:               *)
(*   - "News Detection/main testing.py": the FastAPI /check-fact pipeline  *)
(*     (extract_keywords, fetch_google_news, calculate_semantic_similarity,*)
(*     analyze_claim_against_news, check_fact);                            *)
(*   - "main.py": the Flask /verify pipeline (NewsVerifier, verify);       *)
(*   - "News Detection/news testing.py": the BERT ranking script.          *)
(*                                                                         *)
(* Texts are sequences of one-character strings, so that strip, lower,     *)
(* split, regular-expression tokenising and substring search are computed  *)
(* as the code computes them.  Floating-point values are fixed-point       *)
(* integers in thousandths: 0.7 is 700, 1.0 is 1000.                       *)
(***************************************************************************)
EXTENDS Integers, Sequences, FiniteSets, TLC

VARIABLES
    model,        \* main testing.py: the global SentenceTransformer, "loaded" or "none"
    search_file,  \* main testing.py: the lines of search.txt
    users,        \* main.py: the rows of the users table, by email
    vectorizer,   \* main.py: verifier.vectorizer, the vocabulary of its last fit
    req,          \* the request being answered (what the client sent)
    env,          \* what the external collaborators answered during the request
    calls,        \* the pipeline stages the request executed, in order
    news_items,   \* the article records the request holds, as the pipeline left them
    resp,         \* the response handed to the client
    prev,         \* the response of the previous run of the same request
    program,      \* which of the repository's programs this process runs
    threads,      \* main.py: the /verify requests the threaded server is answering
    today         \* main.py: the date of the server's clock, in days

vars == <<today, threads, program, model, search_file, users, vectorizer, req, env, calls, news_items, resp, prev>>

----------------------------------------------------------------------------
(* Bounds of the model.                                                    *)

\* longest entry list the Google News feed returns
MaxArticles == 4
\* longest article list NewsAPI returns
MaxApiArticles == 2

----------------------------------------------------------------------------
(* Characters and strings (Python str).                                    *)

UpperChars == <<"A","B","C","D","E","F","G","H","I","J","K","L","M",
                "N","O","P","Q","R","S","T","U","V","W","X","Y","Z">>
LowerChars == <<"a","b","c","d","e","f","g","h","i","j","k","l","m",
                "n","o","p","q","r","s","t","u","v","w","x","y","z">>
Digits == {"0","1","2","3","4","5","6","7","8","9"}

\* a value that may be missing (None, a JSON null, a NULL column): the sequence
\* holding it, or the empty sequence
Present(x) == <<x>>
Absent == <<>>

Range(s) == {s[i] : i \in DOMAIN s}

\* str.isalpha / [a-zA-Z], on one character
IsAlpha(c) == c \in Range(UpperChars) \cup Range(LowerChars)
\* the regular expression class \w, on one character
IsWordChar(c) == IsAlpha(c) \/ c \in Digits \/ c = "_"
\* the regular expression class \s and str.strip's whitespace, on one character
IsSpace(c) == c \in {" ", "\t", "\n"}

\* str.lower, on one character
LowerChar(c) ==
    IF \E i \in DOMAIN UpperChars : UpperChars[i] = c
    THEN LowerChars[CHOOSE i \in DOMAIN UpperChars : UpperChars[i] = c]
    ELSE c
\* str.lower
Lower(s) == [i \in DOMAIN s |-> LowerChar(s[i])]

\* str.strip(): leading and trailing whitespace removed
Strip(s) ==
    LET keep == {i \in DOMAIN s : ~IsSpace(s[i])}
    IN  IF keep = {} THEN <<>>
        ELSE LET lo == CHOOSE i \in keep : \A j \in keep : i <= j
                 hi == CHOOSE i \in keep : \A j \in keep : i >= j
             IN  SubSeq(s, lo, hi)

\* the places where sub occurs in s
Occurrences(sub, s) ==
    {i \in 1..(Len(s) - Len(sub) + 1) : SubSeq(s, i, i + Len(sub) - 1) = sub}
\* Python's "sub in s"
Contains(sub, s) == Occurrences(sub, s) # {}

\* str.split(sep): cut at the occurrences of sep, left to right, never overlapping
RECURSIVE Split(_, _)
Split(s, sep) ==
    IF ~Contains(sep, s) THEN <<s>>
    ELSE LET i == CHOOSE k \in Occurrences(sep, s) :
                       \A j \in Occurrences(sep, s) : k <= j
         IN  <<SubSeq(s, 1, i - 1)>> \o Split(SubSeq(s, i + Len(sep), Len(s)), sep)

\* sep.join(parts)
RECURSIVE Join(_, _)
Join(parts, sep) ==
    IF parts = <<>> THEN <<>>
    ELSE IF Len(parts) = 1 THEN parts[1]
    ELSE parts[1] \o sep \o Join(Tail(parts), sep)

\* the sequence of the members of a set of integers, ascending
RECURSIVE Ascending(_)
Ascending(S) ==
    IF S = {} THEN <<>>
    ELSE LET m == CHOOSE x \in S : \A y \in S : x <= y
         IN  <<m>> \o Ascending(S \ {m})

\* the maximal runs of s made of the places in K, left to right
RunsAt(s, K) ==
    LET starts == {i \in K : i = 1 \/ (i - 1) \notin K}
        EndOf(i) == CHOOSE j \in i..Len(s) :
                       /\ \A k \in i..j : k \in K
                       /\ (j = Len(s) \/ (j + 1) \notin K)
        order == Ascending(starts)
    IN  [n \in DOMAIN order |-> SubSeq(s, order[n], EndOf(order[n]))]

\* the maximal runs of word characters of s, left to right
WordRuns(s) == RunsAt(s, {i \in DOMAIN s : IsWordChar(s[i])})

\* the elements of a sequence that satisfy a test, in order
SelectIdx(s, Keep) ==
    LET order == Ascending({i \in DOMAIN s : i \in Keep})
    IN  [n \in DOMAIN order |-> s[order[n]]]

\* s[:n]
Take(s, n) == SubSeq(s, 1, IF Len(s) < n THEN Len(s) ELSE n)

----------------------------------------------------------------------------
(* Fixed-point numbers: a float x is the integer 1000 * x.                 *)

\* x * y of two fixed-point numbers (the operands used are never both negative)
Mul(x, y) == (x * y) \div 1000
Min(x, y) == IF x <= y THEN x ELSE y
\* max() of a non-empty sequence of numbers
MaxOf(s) == CHOOSE x \in Range(s) : \A y \in Range(s) : x >= y

----------------------------------------------------------------------------
(* News Detection/main testing.py                                          *)

\* extract_keywords: the stopword set
stopwords == {
    <<"t","h","e">>, <<"a">>, <<"a","n">>, <<"a","n","d">>, <<"o","r">>, <<"b","u","t">>, <<"i","n">>, <<"o","n">>, <<"a","t">>,
    <<"t","o">>, <<"f","o","r">>, <<"o","f">>, <<"w","i","t","h">>, <<"b","y">>, <<"i","s">>, <<"w","a","s">>, <<"a","r","e">>,
    <<"w","e","r","e">>, <<"b","e">>, <<"b","e","e","n">>, <<"b","e","i","n","g">>, <<"h","a","v","e">>, <<"h","a","s">>, <<"h","a","d">>, <<"d","o">>,
    <<"d","o","e","s">>, <<"d","i","d">>, <<"w","i","l","l">>, <<"w","o","u","l","d">>, <<"c","o","u","l","d">>, <<"s","h","o","u","l","d">> }

\* re.findall(r'\b[a-zA-Z]+\b', s): the runs of word characters that are all letters
AlphaWords(s) ==
    LET runs == WordRuns(s)
    IN  SelectIdx(runs, {i \in DOMAIN runs : \A k \in DOMAIN runs[i] : IsAlpha(runs[i][k])})

\* extract_keywords(claim)
extract_keywords(claim) ==
    LET words == AlphaWords(Lower(claim))
        keywords == SelectIdx(words,
                        {i \in DOMAIN words : words[i] \notin stopwords /\ Len(words[i]) > 2})
    IN  Join(Take(keywords, 6), <<" ">>)

\* fetch_google_news: the default of max_results
DefaultMaxResults == 15

\* One feed entry to one news item (the loop body of fetch_google_news).  An entry
\* is [title, summary, link, published], each attribute a sequence holding the value,
\* or empty when the entry lacks the attribute.  The item has no 'similarity' key
\* yet: the field is the empty sequence until the scorer sets it.
NewsItemOf(entry) ==
    LET title_parts == Split(entry.title[1], <<" ","-"," ">>)
        Attr(a) == IF a = <<>> THEN <<>> ELSE a[1]
    IN  [title       |-> IF Len(title_parts) > 1
                         THEN Join(SubSeq(title_parts, 1, Len(title_parts) - 1), <<" ","-"," ">>)
                         ELSE entry.title[1],
         description |-> Attr(entry.summary),
         link        |-> Attr(entry.link),
         source      |-> IF Len(title_parts) > 1
                         THEN title_parts[Len(title_parts)]
                         ELSE <<"U","n","k","n","o","w","n"," ","S","o","u","r","c","e">>,
         published   |-> Attr(entry.published),
         similarity  |-> <<>>]

\* fetch_google_news(query, max_results), on the answer feed of feedparser.parse:
\* [raises, bozo, entries].  Any exception (the parse raising, an entry without a
\* title) is logged and answered with the empty list.
fetch_google_news(feed, max_results) ==
    LET entries == Take(feed.entries, max_results)
    IN  IF feed.raises \/ \E i \in DOMAIN entries : entries[i].title = <<>>
        THEN <<>>
        ELSE [i \in DOMAIN entries |-> NewsItemOf(entries[i])]

\* The embedding backend (SentenceTransformer all-MiniLM-L6-v2, an external
\* collaborator): np.dot of the claim's embedding with a text's embedding, by claim
\* and text.  The embeddings are unit vectors, so a text identical to the claim
\* scores 1.0 and every score lies in [-1, 1]; a pair scores the same every time it
\* is encoded.
EmbeddingTable == <<
    <<<<"S","k","y"," ","i","s"," ","b","l","u","e">>,   <<"S","k","y"," ","N","O","T"," ","-"," ","b","l","u","e"," ">>,      800>>,
    <<<<"S","k","y"," ","i","s"," ","b","l","u","e">>,   <<"B","l","u","e"," ","s","k","y"," ","d","e","b","u","n","k","e","d"," ">>,   600>>,
    <<<<"S","k","y"," ","i","s"," ","b","l","u","e">>,   <<"N","o","t","h","i","n","g"," ","s","k","y">>,          500>>,
    <<<<"M","u","d"," ","i","s"," ","i","t">>,     <<"S","k","y"," ","i","s"," ","b","l","u","e">>,          700>>,
    <<<<"M","u","d"," ","i","s"," ","i","t">>,     <<"S","k","y"," ","N","O","T"," ","-"," ","b","l","u","e"," ">>,      700>>,
    <<<<"M","u","d"," ","i","s"," ","i","t">>,     <<"B","l","u","e"," ","s","k","y"," ","d","e","b","u","n","k","e","d"," ">>,     0>>,
    <<<<"M","u","d"," ","i","s"," ","i","t">>,     <<"N","o","t","h","i","n","g"," ","s","k","y">>,        -1000>> >>

Dot(claim, text) ==
    LET hits == {i \in DOMAIN EmbeddingTable :
                    EmbeddingTable[i][1] = claim /\ EmbeddingTable[i][2] = text}
    IN  IF text = claim THEN 1000
        ELSE IF hits # {} THEN EmbeddingTable[CHOOSE i \in hits : TRUE][3]
        ELSE 0

\* f"{item['title']} {item.get('description', '')}"
ItemText(item) == item.title \o <<" ">> \o item.description

\* item.get('similarity', 0.0): the key is a sequence, empty while the item has none
Similarity(item) == IF item.similarity = <<>> THEN 0 ELSE item.similarity[1]

\* a variant of the default scores that leaves the items as they are
ZeroSimilaritySkipped(items) == items

\* for item in news_items: item['similarity'] = 0.0
ZeroSimilarity(items) == [i \in DOMAIN items |-> [items[i] EXCEPT !.similarity = <<0>>]]

\* a variant of the sort that forgets reverse=True: ascending, stable
SortAscending(items) ==
    LET Before(j, i) == \/ Similarity(items[j]) < Similarity(items[i])
                        \/ Similarity(items[j]) = Similarity(items[i]) /\ j < i
        Pos(i) == Cardinality({j \in DOMAIN items : Before(j, i)}) + 1
    IN  [n \in DOMAIN items |-> items[CHOOSE i \in DOMAIN items : Pos(i) = n]]

\* a variant of the sort that sorts ascending and then reverses the list, which
\* reverses the items with equal keys too
SortThenReverse(items) ==
    LET Before(j, i) == \/ Similarity(items[j]) > Similarity(items[i])
                        \/ Similarity(items[j]) = Similarity(items[i]) /\ j > i
        Pos(i) == Cardinality({j \in DOMAIN items : Before(j, i)}) + 1
    IN  [n \in DOMAIN items |-> items[CHOOSE i \in DOMAIN items : Pos(i) = n]]

\* news_items.sort(key=lambda x: x['similarity'], reverse=True): list.sort is stable,
\* and reverse=True keeps the original order of items with equal keys
SortBySimilarity(items) ==
    LET Before(j, i) == \/ Similarity(items[j]) > Similarity(items[i])
                        \/ Similarity(items[j]) = Similarity(items[i]) /\ j < i
        Pos(i) == Cardinality({j \in DOMAIN items : Before(j, i)}) + 1
    IN  [n \in DOMAIN items |-> items[CHOOSE i \in DOMAIN items : Pos(i) = n]]

\* calculate_semantic_similarity(claim, news_items); encode_raises says whether
\* model.encode raises during this call
calculate_semantic_similarity(mdl, encode_raises, claim, items) ==
    IF mdl = "none" THEN ZeroSimilarity(items)
    ELSE IF encode_raises THEN ZeroSimilarity(items)
    ELSE IF items = <<>> THEN items
    ELSE SortBySimilarity(
            [i \in DOMAIN items |->
                [items[i] EXCEPT !.similarity = <<Dot(claim, ItemText(items[i]))>>]])

\* analyze_claim_against_news: the contradiction lexicon
contradictory_keywords ==
    {<<"n","o","t">>, <<"n","e","v","e","r">>, <<"f","a","l","s","e">>, <<"d","e","n","i","e","s">>, <<"r","e","f","u","t","e","s">>, <<"c","o","n","t","r","a","r","y">>, <<"o","p","p","o","s","i","t","e">>}

\* any(keyword in text for keyword in contradictory_keywords), text lower-cased
HasContradiction(item) ==
    \E keyword \in contradictory_keywords : Contains(keyword, Lower(ItemText(item)))

\* An analysis summary: the sentence template, the count and the similarity it
\* formats (0 where the template has none), and whether the contradiction sentence
\* was appended.
Summary(template, count, similarity) ==
    [template |-> template, count |-> count, similarity |-> similarity, however |-> FALSE]

\* a variant of the 'Likely True' test that a maximum of exactly 0.7 passes
IsLikelyTrueAtThreshold(max_similarity, high_count) ==
    max_similarity >= 700 /\ high_count >= 2

\* a variant of the 'Likely True' test that is content with one item above 0.5
IsLikelyTrueWithOne(max_similarity, high_count) == max_similarity > 700 /\ high_count >= 1

\* a variant of the 'Likely True' confidence without the cap at 0.9
UncappedConfidence(max_similarity) == max_similarity + 100

\* the test of the 'Likely True' branch, on the maximum similarity and the number of
\* items above 0.5
IsLikelyTrue(max_similarity, high_count) == max_similarity > 700 /\ high_count >= 2

\* the confidence of the 'Likely True' branch: min(0.9, max_similarity + 0.1)
LikelyTrueConfidence(max_similarity) == Min(900, max_similarity + 100)

\* analyze_claim_against_news up to the contradiction loop: the threshold policy.
\* The summary is kept as its template and the numbers it formats.
ThresholdVerdict(items) ==
    LET similarities == [i \in DOMAIN items |-> Similarity(items[i])]
        high   == {i \in DOMAIN items : Similarity(items[i]) > 500}
        medium == {i \in DOMAIN items :
                      300 <= Similarity(items[i]) /\ Similarity(items[i]) <= 500}
        max_similarity == MaxOf(similarities)
    IN  IF IsLikelyTrue(max_similarity, Cardinality(high))
        THEN [verdict    |-> "Likely True",
              confidence |-> LikelyTrueConfidence(max_similarity),
              summary    |-> Summary("highly similar", Cardinality(high), max_similarity)]
        ELSE IF max_similarity > 600
        THEN [verdict    |-> "Possibly True",
              confidence |-> Mul(max_similarity, 800),
              summary    |-> Summary("moderate similarity", 0, max_similarity)]
        ELSE IF max_similarity > 400 /\ Cardinality(medium) >= 2
        THEN [verdict    |-> "Unverified",
              confidence |-> Mul(max_similarity, 600),
              summary    |-> Summary("lower similarity", 0, 0)]
        ELSE [verdict    |-> "Likely False",
              confidence |-> IF max_similarity < 400
                             THEN 300 + Mul(400 - max_similarity, 500)
                             ELSE 300,
              summary    |-> Summary("no highly similar", 0, 0)]

\* a variant of the contradiction loop that damps the confidence at every item that
\* holds a keyword, whatever the verdict
RECURSIVE ContradictionLoopUnguarded(_, _)
ContradictionLoopUnguarded(top, v) ==
    IF top = <<>> THEN v
    ELSE ContradictionLoopUnguarded(Tail(top),
            IF HasContradiction(Head(top))
            THEN [verdict    |-> "Contradictory Reports",
                  confidence |-> Mul(v.confidence, 700),
                  summary    |-> [v.summary EXCEPT !.however = TRUE]]
            ELSE v)

\* the contradiction loop over high_similarity_items[:3], run on verdict v
RECURSIVE ContradictionLoop(_, _)
ContradictionLoop(top, v) ==
    IF top = <<>> THEN v
    ELSE ContradictionLoop(Tail(top),
            IF HasContradiction(Head(top)) /\ v.verdict = "Likely True"
            THEN [verdict    |-> "Contradictory Reports",
                  confidence |-> Mul(v.confidence, 700),
                  summary    |-> [v.summary EXCEPT !.however = TRUE]]
            ELSE v)

\* high_similarity_items: the items above 0.5, in the order of the list
HighSimilarityItems(items) ==
    SelectIdx(items, {i \in DOMAIN items : Similarity(items[i]) > 500})

\* a variant of the contradiction loop's range without the [:3] cut
AllHigh(items) == HighSimilarityItems(items)

\* high_similarity_items[:3], the items the contradiction loop reads
TopHigh(items) == Take(HighSimilarityItems(items), 3)

\* a variant of NoSimilarNews that takes a negative maximum too
NoSimilarNewsOrBelow(similarities) == MaxOf(similarities) <= 0

\* the test of the 'No semantically similar news found' branch:
\* max(similarities) == 0.0
NoSimilarNews(similarities) == MaxOf(similarities) = 0

\* analyze_claim_against_news(claim, news_items)
analyze_claim_against_news(claim, items) ==
    IF items = <<>>
    THEN [verdict |-> "Unverified", confidence |-> 0, summary |-> Summary("no recent news unable", 0, 0)]
    ELSE IF NoSimilarNews([i \in DOMAIN items |-> Similarity(items[i])])
    THEN [verdict |-> "Unverified", confidence |-> 100, summary |-> Summary("no similar news", 0, 0)]
    ELSE ContradictionLoop(TopHigh(items), ThresholdVerdict(items))

\* NewsItem(...) for item in news_with_similarity[:10]
NewsSources(items) ==
    LET top_news == Take(items, 10)
    IN  [i \in DOMAIN top_news |->
            [title       |-> top_news[i].title,
             description |-> top_news[i].description,
             link        |-> top_news[i].link,
             source      |-> top_news[i].source,
             similarity  |-> Similarity(top_news[i])]]

\* One call of a pipeline stage, as the request's trace keeps it
Call(stage) == <<stage>>

\* a variant of the length test that measures the claim before trimming it
TooShortUntrimmed(claim) == claim = <<>> \/ Len(claim) < 3

\* check_fact: not request.claim or len(request.claim.strip()) < 3
TooShort(claim) == claim = <<>> \/ Len(Strip(claim)) < 3

\* a variant of the no-news response that carries the confidence 0.1 of the
\* no-similar-news answer
NoNewsResponseLowConfidence ==
    [kind |-> "verdict", status |-> 200,
     verdict |-> "Unverified", confidence |-> 100,
     analysis_summary |-> [template |-> "no recent news newsworthy", count |-> 0,
                           similarity |-> 0, however |-> FALSE],
     news_sources |-> <<>>]

\* check_fact: the response when fetch_google_news returned no item
NoNewsResponse ==
    [kind |-> "verdict", status |-> 200,
     verdict |-> "Unverified", confidence |-> 0,
     analysis_summary |-> Summary("no recent news newsworthy", 0, 0),
     news_sources |-> <<>>]

\* a variant of SavedHistory that saves the search whether or not the request names a
\* user
SavedHistoryAlways(request, analysis) ==
    <<[user_email |-> request.user_email,
       claim      |-> request.claim,
       verdict    |-> analysis.verdict,
       confidence |-> analysis.confidence]>>

\* check_fact, "Save search history if user_email is provided": the lines the call
\* hands to save_search_history, none when user_email is None or empty.  The id (a
\* fresh uuid) and the timestamp of a line are left out.
SavedHistory(request, analysis) ==
    IF request.user_email # <<>>
    THEN <<[user_email |-> request.user_email,
            claim      |-> request.claim,
            verdict    |-> analysis.verdict,
            confidence |-> analysis.confidence]>>
    ELSE <<>>

\* check_fact(request), with mdl the global model, e what the collaborators answer
\* during the call and fetched the list fetch_google_news hands back.  The result is
\* the stages run, the article list as the call leaves it, the response, and the
\* lines appended to search.txt.
check_fact(mdl, request, e, fetched) ==
    IF TooShort(request.claim)
    THEN [calls      |-> <<>>,
          news_items |-> <<>>,
          resp       |-> [kind |-> "rejected", status |-> 400,
                          detail |-> "Claim must be at least 3 characters long"],
          saved      |-> <<>>]
    ELSE IF fetched = <<>>
    THEN [calls      |-> Call("extract_keywords") \o Call("fetch_google_news"),
          news_items |-> fetched,
          resp       |-> NoNewsResponse,
          saved      |-> <<>>]
    ELSE LET news_with_similarity ==
                 calculate_semantic_similarity(mdl, e.encode_raises, request.claim, fetched)
             analysis == analyze_claim_against_news(request.claim, news_with_similarity)
         IN  [calls      |-> Call("extract_keywords") \o Call("fetch_google_news")
                             \o Call("calculate_semantic_similarity")
                             \o Call("analyze_claim_against_news"),
              news_items |-> news_with_similarity,
              resp       |-> [kind |-> "verdict", status |-> 200,
                              verdict |-> analysis.verdict,
                              confidence |-> analysis.confidence,
                              analysis_summary |-> analysis.summary,
                              news_sources |-> NewsSources(news_with_similarity)],
              saved      |-> SavedHistory(request, analysis)]

----------------------------------------------------------------------------
(* main.py                                                                 *)

\* a variant of NewsVerifier.clean_text that deletes the whitespace too
clean_text_words_only(text) ==
    LET low == Lower(text)
    IN  SelectIdx(low, {i \in DOMAIN low : IsWordChar(low[i])})

\* NewsVerifier.clean_text: lower-case, then delete every character that is neither
\* a word character nor whitespace
clean_text(text) ==
    LET low == Lower(text)
    IN  SelectIdx(low, {i \in DOMAIN low : IsWordChar(low[i]) \/ IsSpace(low[i])})

\* nltk.corpus.stopwords.words('english'): the members that are words of the
\* model's texts or near them
nltk_stop_words == {
    <<"i">>, <<"i","t">>, <<"i","t","s">>, <<"i","s">>, <<"a","r","e">>, <<"w","a","s">>, <<"b","e">>, <<"a">>, <<"a","n">>,
    <<"t","h","e">>, <<"a","n","d">>, <<"b","u","t">>, <<"o","r">>, <<"o","f">>, <<"a","t">>, <<"b","y">>, <<"f","o","r">>, <<"t","o">>,
    <<"i","n">>, <<"o","n">>, <<"n","o">>, <<"n","o","r">>, <<"n","o","t">>, <<"s","o">>, <<"s">>, <<"t">> }

\* NewsVerifier.query_keywords: question_words
question_words == {
    <<"i","s">>, <<"a","r","e">>, <<"w","a","s">>, <<"w","e","r","e">>, <<"d","i","d">>, <<"d","o">>, <<"d","o","e","s">>, <<"h","a","s">>,
    <<"h","a","v","e">>, <<"h","a","d">>, <<"c","a","n">>, <<"c","o","u","l","d">>, <<"s","h","o","u","l","d">>, <<"w","o","u","l","d">>, <<"w","h","a","t">>,
    <<"w","h","e","n">>, <<"w","h","e","r","e">>, <<"w","h","o">>, <<"w","h","y">>, <<"h","o","w">> }

\* nltk.word_tokenize, on a text of letters and whitespace: its whitespace-separated
\* words
word_tokenize(text) == RunsAt(text, {i \in DOMAIN text : ~IsSpace(text[i])})

\* NewsVerifier.query_keywords(statement)
query_keywords(statement) ==
    LET words == word_tokenize(Lower(statement))
        filtered == SelectIdx(words,
                        {i \in DOMAIN words :
                            /\ \A k \in DOMAIN words[i] : IsAlpha(words[i][k])
                            /\ words[i] \notin nltk_stop_words
                            /\ words[i] \notin question_words})
    IN  Join(filtered, <<" ">>)

\* (article['title'] or '') + " " + (article['description'] or '')
ArticleString(article) ==
    LET OrEmpty(a) == IF a = <<>> THEN <<>> ELSE a[1]
    IN  OrEmpty(article.title) \o <<" ">> \o OrEmpty(article.description)

\* NewsVerifier.get_news_articles(query), on the answer of requests.get:
\* [raises, status_code, articles].  A status other than 200 and any exception are
\* printed and answered with the empty list.
get_news_articles(response) ==
    IF response.raises THEN <<>>
    ELSE IF response.status_code = 200
    THEN [i \in DOMAIN response.articles |-> ArticleString(response.articles[i])]
    ELSE <<>>

\* sklearn's ENGLISH_STOP_WORDS (stop_words='english'): the members that are words of
\* the model's texts or near them
sklearn_stop_words == {
    <<"i","s">>, <<"i","t">>, <<"i","t","s">>, <<"t","h","e">>, <<"a","n">>, <<"a","n","d">>, <<"a","r","e">>, <<"b","e">>, <<"n","o","t">>,
    <<"n","o","t","h","i","n","g">>, <<"n","e","v","e","r">>, <<"n","o">>, <<"o","f">>, <<"o","n">>, <<"o","r">>, <<"t","o">>, <<"w","a","s">> }

\* The analyzer of TfidfVectorizer(stop_words='english'): lower-case, the tokens of
\* the pattern \b\w\w+\b (runs of at least two word characters), stop words removed
Terms(doc) ==
    LET tokens == WordRuns(Lower(doc))
    IN  SelectIdx(tokens,
            {i \in DOMAIN tokens :
                Len(tokens[i]) >= 2 /\ tokens[i] \notin sklearn_stop_words})

\* how often term t occurs among the terms of a document
TermCount(t, terms) == Cardinality({i \in DOMAIN terms : terms[i] = t})

\* TfidfTransformer's smoothed idf, ln((1 + n) / (1 + df)) + 1, in tenths, for a
\* corpus of n documents of which df hold the term
IdfTable == <<
    <<10>>,
    <<14, 10>>,
    <<17, 13, 10>>,
    <<19, 15, 12, 10>>,
    <<21, 17, 14, 12, 10>>,
    <<23, 18, 16, 13, 12, 10>>,
    <<24, 20, 17, 15, 13, 11, 10>>,
    <<25, 21, 18, 16, 14, 13, 11, 10>> >>

\* TfidfVectorizer.fit on documents given by their terms: the vocabulary and the idf
\* of each of its terms
Fit(docs) ==
    LET vocabulary == UNION {Range(docs[i]) : i \in DOMAIN docs}
    IN  [vocabulary |-> vocabulary,
         idf        |-> [t \in vocabulary |->
                            IdfTable[Len(docs)]
                                    [Cardinality({i \in DOMAIN docs : t \in Range(docs[i])})]]]

\* the sum of f over a finite set
RECURSIVE SumOver(_, _)
SumOver(S, f) ==
    IF S = {} THEN 0
    ELSE LET x == CHOOSE y \in S : TRUE
         IN  f[x] + SumOver(S \ {x}, f)

\* the integer square root, by bisection on lo..hi
RECURSIVE ISqrtIn(_, _, _)
ISqrtIn(x, lo, hi) ==
    IF lo >= hi THEN lo
    ELSE LET mid == (lo + hi + 1) \div 2
         IN  IF mid * mid <= x THEN ISqrtIn(x, mid, hi) ELSE ISqrtIn(x, lo, mid - 1)

ISqrt(x) == ISqrtIn(x, 0, 40000)

\* cosine_similarity of the tf-idf rows of two documents given by their terms, under
\* the fitted vectorizer v, in thousandths; a row of zeros has similarity 0 with
\* every row
cosine_similarity(v, terms_a, terms_b) ==
    LET wa == [t \in v.vocabulary |-> TermCount(t, terms_a) * v.idf[t]]
        wb == [t \in v.vocabulary |-> TermCount(t, terms_b) * v.idf[t]]
        dot == SumOver(v.vocabulary, [t \in v.vocabulary |-> wa[t] * wb[t]])
        na  == SumOver(v.vocabulary, [t \in v.vocabulary |-> wa[t] * wa[t]])
        nb  == SumOver(v.vocabulary, [t \in v.vocabulary |-> wb[t] * wb[t]])
    IN  IF na = 0 \/ nb = 0 THEN 0
        ELSE (dot * 1000) \div ISqrt(na * nb)

\* the vectorizer before its first fit
Unfitted == [vocabulary |-> {}, idf |-> <<>>]

\* a variant of the threshold test that any similarity above 0 passes
AboveZero(max_similarity) == max_similarity > 0

\* verify_statement: max_similarity > threshold, the threshold 0.05
AboveThreshold(max_similarity) == max_similarity > 50

\* NewsVerifier.verify_statement(statement), with v the shared vectorizer and
\* articles what get_news_articles returned: (is_true, confidence, article_count,
\* sample_articles), and the vectorizer as fit_transform leaves it.  The confidence
\* is a percentage, in thousandths.  fit_transform raises ValueError on an empty
\* vocabulary, before it stores anything.
verify_statement(v, statement, articles) ==
    IF articles = <<>>
    THEN [is_true |-> FALSE, confidence |-> 0, article_count |-> 0,
          sample_articles |-> <<>>, vectorizer |-> v]
    ELSE LET clean_statement == clean_text(statement)
             clean_articles == [i \in DOMAIN articles |-> clean_text(articles[i])]
             docs == [i \in 1..(Len(articles) + 1) |->
                         Terms(IF i = 1 THEN clean_statement ELSE clean_articles[i - 1])]
             fitted == Fit(docs)
         IN  IF fitted.vocabulary = {}
             THEN [is_true |-> FALSE, confidence |-> 0,
                   article_count |-> Len(articles),
                   sample_articles |-> Take(articles, 5), vectorizer |-> v]
             ELSE LET similarities ==
                          [i \in DOMAIN articles |->
                              cosine_similarity(fitted, docs[1], docs[i + 1])]
                      max_similarity == MaxOf(similarities)
                  IN  [is_true |-> AboveThreshold(max_similarity),
                       confidence |-> max_similarity * 100,
                       article_count |-> Len(articles),
                       sample_articles |-> Take(articles, 5),
                       vectorizer |-> fitted]

\* render_result_page(claim, is_true, confidence, article_count, sample_articles,
\* error_msg): what the page shows.  With an error message the verdict block is left
\* out; without one the label is LIKELY TRUE or LIKELY FALSE and at most three
\* sample articles are listed.
render_result_page(claim, is_true, confidence, article_count, sample_articles, error_msg) ==
    [kind            |-> "page",
     claim           |-> claim,
     error_msg       |-> error_msg,
     label           |-> IF error_msg # "" THEN ""
                         ELSE IF is_true THEN "LIKELY TRUE" ELSE "LIKELY FALSE",
     confidence      |-> confidence,
     article_count   |-> article_count,
     sample_articles |-> IF error_msg = "" /\ article_count > 0
                         THEN Take(sample_articles, 3) ELSE <<>>]

\* hash_password: the digest of a password, written as the tagged password
hash_password(password) == <<"sha256">> \o password

\* get_user(email): the rows of the users table with that email (at most one, the
\* column is UNIQUE)
get_user(table, email) == SelectIdx(table, {i \in DOMAIN table : table[i].email = email})

\* create_user(email, password): the table after the INSERT, the defaults filled in;
\* an email already present violates UNIQUE and nothing is stored
create_user(table, email, password, day) ==
    IF get_user(table, email) # <<>> THEN table
    ELSE Append(table, [email         |-> email,
                        password_hash |-> hash_password(password),
                        subscription  |-> "Free",
                        usage_count   |-> Present(5),
                        last_reset    |-> day])

\* update_user_usage(email, usage_count)
update_user_usage(table, email, usage_count) ==
    [i \in DOMAIN table |->
        IF table[i].email = email
        THEN [table[i] EXCEPT !.usage_count = usage_count] ELSE table[i]]

\* update_user_subscription(email, subscription)
update_user_subscription(table, email, subscription) ==
    [i \in DOMAIN table |->
        IF table[i].email = email
        THEN [table[i] EXCEPT !.subscription = subscription] ELSE table[i]]

\* login(): the table after a login with email and password on the date day.  A
\* Free user whose last_reset is another date gets the usage_count 5 and the
\* last_reset of the day; a wrong password or an unknown email changes nothing.
login(table, email, password, day) ==
    [i \in DOMAIN table |->
        IF /\ table[i].email = email
           /\ table[i].password_hash = hash_password(password)
           /\ table[i].subscription = "Free"
           /\ table[i].last_reset # day
        THEN [table[i] EXCEPT !.usage_count = Present(5), !.last_reset = day]
        ELSE table[i]]

\* the usage check of verify reads the row of a Free user
FreeUser(table, user_email) ==
    /\ user_email # <<>>
    /\ get_user(table, user_email) # <<>>
    /\ get_user(table, user_email)[1].subscription = "Free"

\* a variant of the usage check that lets a usage_count of 0 pass
DailyLimitReachedBelowZero(table, user_email) ==
    /\ FreeUser(table, user_email)
    /\ get_user(table, user_email)[1].usage_count # Absent
    /\ get_user(table, user_email)[1].usage_count[1] < 0

\* the usage check of verify: a Free user whose usage_count is used up is refused
DailyLimitReached(table, user_email) ==
    /\ FreeUser(table, user_email)
    /\ get_user(table, user_email)[1].usage_count # Absent
    /\ get_user(table, user_email)[1].usage_count[1] <= 0

\* user['usage_count'] <= 0 on a usage_count that is None (the column is NULL):
\* TypeError
UsageCheckRaises(table, user_email) ==
    /\ FreeUser(table, user_email)
    /\ get_user(table, user_email)[1].usage_count = Absent

\* verify(): the /verify handler, with table the users table, v the shared
\* vectorizer and e what the collaborators answer.  The result is the stages run, the
\* page and the vectorizer as the call leaves it.
verify(table, v, request, e) ==
    IF request.claim = <<>>
    THEN [calls |-> <<>>, vectorizer |-> v,
          resp  |-> render_result_page(<<>>, FALSE, 0, 0, <<>>, "No claim provided")]
    ELSE IF DailyLimitReached(table, request.user_email)
    THEN [calls |-> <<>>, vectorizer |-> v,
          resp  |-> render_result_page(request.claim, FALSE, 0, 0, <<>>,
                                       "Daily limit reached!")]
    ELSE IF UsageCheckRaises(table, request.user_email)
    THEN [calls |-> <<>>, vectorizer |-> v,
          resp  |-> render_result_page(<<>>, FALSE, 0, 0, <<>>, "Verification error")]
    ELSE IF e.nltk_raises
    THEN [calls |-> Call("query_keywords"), vectorizer |-> v,
          resp  |-> render_result_page(<<>>, FALSE, 0, 0, <<>>, "Verification error")]
    ELSE LET articles == get_news_articles(e.response)
             out == verify_statement(v, request.claim, articles)
         IN  [calls |-> Call("query_keywords") \o Call("get_news_articles")
                        \o (IF articles = <<>> THEN <<>>
                            ELSE Call("clean_text") \o Call("fit_transform")),
              vectorizer |-> out.vectorizer,
              resp  |-> render_result_page(request.claim, out.is_true, out.confidence,
                                           out.article_count, out.sample_articles, "")]

----------------------------------------------------------------------------
(* News Detection/news testing.py                                          *)

\* clean(text): re.sub(r'\W+', ' ', text.lower()), every maximal run of non-word
\* characters replaced by one blank
clean(text) ==
    LET low == Lower(text)
        blanked == [i \in DOMAIN low |-> IF IsWordChar(low[i]) THEN low[i] ELSE " "]
    IN  SelectIdx(blanked,
            {i \in DOMAIN low : IsWordChar(low[i]) \/ i = 1 \/ IsWordChar(low[i - 1])})

\* The BERT backend (bert-base-uncased, an external collaborator): the cosine of the
\* mean-pooled embeddings of the user's input and of an article's text.  A text
\* identical to the input scores 1.0; the model is uncased, so texts that differ in
\* case only score the same; a text scores the same every time.
BertTable == <<
    <<<<"s","k","y"," ","i","s"," ","b","l","u","e">>, 800>>,
    <<<<"b","l","u","e"," ","m","u","d"," ">>,   600>> >>

\* cosine_similarity([user_vec], [article_vec])[0][0]; the tokenizer lower-cases both
BertCosine(user_input, text) ==
    LET low == Lower(text)
    IN  IF low = Lower(user_input) THEN 1000
        ELSE IF \E i \in DOMAIN BertTable : BertTable[i][1] = low
        THEN BertTable[CHOOSE i \in DOMAIN BertTable : BertTable[i][1] = low][2]
        ELSE 0

\* the characters in the order of their code points
CodePointOrder ==
    <<"\t", "\n", " ", "-">> \o <<"0","1","2","3","4","5","6","7","8","9">>
    \o UpperChars \o <<"_">> \o LowerChars

CodePoint(c) == CHOOSE i \in DOMAIN CodePointOrder : CodePointOrder[i] = c

\* Python's a < b on strings
RECURSIVE StrLess(_, _)
StrLess(a, b) ==
    IF b = <<>> THEN FALSE
    ELSE IF a = <<>> THEN TRUE
    ELSE IF Head(a) = Head(b) THEN StrLess(Tail(a), Tail(b))
    ELSE CodePoint(Head(a)) < CodePoint(Head(b))

\* similarities.sort(reverse=True) on the (score, title) tuples: tuples compare by
\* score and then by title, so the descending order puts the greater title first
\* among equal scores; tuples equal in both keep their order
SortTuplesReverse(pairs) ==
    LET Greater(p, q) == \/ p.score > q.score
                         \/ p.score = q.score /\ StrLess(q.title, p.title)
        Before(j, i) == \/ Greater(pairs[j], pairs[i])
                        \/ ~Greater(pairs[i], pairs[j]) /\ j < i
        Pos(i) == Cardinality({j \in DOMAIN pairs : Before(j, i)}) + 1
    IN  [n \in DOMAIN pairs |-> pairs[CHOOSE i \in DOMAIN pairs : Pos(i) = n]]

\* The script from the prompt to its last print, on the user's input and the answer
\* api of newsapi.get_everything, [raises, articles].  It ends with the ranking and
\* the verdict printed, or with the exception that stopped it; similarities is the
\* list of (score, title) pairs as the run leaves it.
news_testing(user_input, api) ==
    IF api.raises
    THEN [kind |-> "crash", exception |-> "NewsAPIException", ranking |-> <<>>,
          similarities |-> <<>>]
    ELSE IF \E i \in DOMAIN api.articles : api.articles[i].title = <<>>
    THEN LET first == CHOOSE i \in DOMAIN api.articles :
                         /\ api.articles[i].title = <<>>
                         /\ \A j \in 1..(i - 1) : api.articles[j].title # <<>>
         IN  [kind |-> "crash", exception |-> "TypeError", ranking |-> <<>>,
              similarities |->
                  [i \in 1..(first - 1) |->
                      [score |-> BertCosine(user_input, ArticleString(api.articles[i])),
                       title |-> api.articles[i].title[1]]]]
    ELSE LET similarities ==
                 [i \in DOMAIN api.articles |->
                     [score |-> BertCosine(user_input, ArticleString(api.articles[i])),
                      title |-> api.articles[i].title[1]]]
             ranking == SortTuplesReverse(similarities)
         IN  IF ranking = <<>>
             THEN [kind |-> "crash", exception |-> "IndexError", ranking |-> <<>>,
                   similarities |-> <<>>]
             ELSE [kind    |-> "verdict",
                   ranking |-> ranking,
                   similarities |-> ranking,
                   verdict |-> IF ranking[1].score > 750 THEN "likely supported"
                               ELSE IF ranking[1].score > 500 THEN "somewhat related"
                               ELSE "likely NOT supported"]

----------------------------------------------------------------------------
(* News Detection/news.py                                                  *)

\* clean_text(text) of news.py: lower-case, every run of non-word characters replaced
\* by one blank, the text split at whitespace, the stop words of nltk dropped and the
\* remaining tokens joined by single blanks
news_clean_text(text) ==
    LET blanked == clean(text)
        words == RunsAt(blanked, {i \in DOMAIN blanked : ~IsSpace(blanked[i])})
        tokens == SelectIdx(words, {i \in DOMAIN words : words[i] \notin nltk_stop_words})
    IN  Join(tokens, <<" ">>)

----------------------------------------------------------------------------

(* The inputs of the model.                                                *)

\* the claims a client sends to /check-fact
Claims == { <<>>, <<" "," ">>, <<"a","b">>, <<" ","a","b"," "," ">>, <<"S","k","y"," ","i","s"," ","b","l","u","e">>, <<"M","u","d"," ","i","s"," ","i","t">> }


\* the entries the Google News feed answers with
FeedPool == {
    [title |-> Present(<<"S","k","y"," ","i","s">>),                 summary |-> Present(<<"b","l","u","e">>)],
    [title |-> Present(<<"S","k","y"," ","N","O","T"," ","-"," ","b","l","u","e"," ","-"," ","C","N","N">>),   summary |-> Present(<<>>)],
    [title |-> Present(<<"B","l","u","e"," ","s","k","y"," ","d","e","b","u","n","k","e","d">>),      summary |-> Absent],
    [title |-> Present(<<"N","o","t","h","i","n","g">>),                summary |-> Present(<<"s","k","y">>)] }

FeedEntry(e) ==
    [title |-> e.title, summary |-> e.summary, link |-> Present(<<"u">>), published |-> Absent]

\* the sequences over S of length at most n
SeqUpTo(S, n) == UNION {[1..k -> S] : k \in 0..n}

\* what feedparser.parse answers: a parsed feed, a feed whose entry has no title,
\* the error page of a failing source (no entries, bozo set), or an exception
Feeds ==
    {[raises |-> FALSE, status |-> 200, bozo |-> FALSE,
      entries |-> [i \in DOMAIN es |-> FeedEntry(es[i])]] : es \in SeqUpTo(FeedPool, MaxArticles)}
    \cup {[raises |-> FALSE, status |-> 200, bozo |-> FALSE,
           entries |-> <<[title |-> Absent, summary |-> Absent,
                          link |-> Absent, published |-> Absent]>>],
          [raises |-> FALSE, status |-> 500, bozo |-> TRUE, entries |-> <<>>],
          [raises |-> TRUE, status |-> 0, bozo |-> FALSE, entries |-> <<>>]}

\* the articles NewsAPI answers main.py with: title and description, each JSON null
\* or a string
ApiPool == {
    [title |-> Present(<<"S","k","y"," ","i","s">>),   description |-> Present(<<"b","l","u","e">>)],
    [title |-> Present(<<"B","l","u","e"," ","m","u","d">>), description |-> Present(<<>>)],
    [title |-> Absent,                description |-> Absent] }

\* the articles NewsAPI answers the script with
ScriptPool == {
    [title |-> Present(<<"S","k","y"," ","i","s">>),   description |-> Present(<<"b","l","u","e">>)],
    [title |-> Present(<<"B","l","u","e"," ","m","u","d">>), description |-> Absent],
    [title |-> Present(<<"b","l","u","e"," ","m","u","d">>), description |-> Present(<<>>)],
    [title |-> Absent,                description |-> Absent] }

\* what newsapi.get_everything answers the script: the articles, or an exception
ScriptResponses ==
    {[raises |-> FALSE, articles |-> as] : as \in SeqUpTo(ScriptPool, MaxApiArticles)}
    \cup {[raises |-> TRUE, articles |-> <<>>]}

\* what requests.get answers in main.py: the articles, an error status, or an exception
ApiResponses ==
    {[raises |-> FALSE, status_code |-> 200, articles |-> as] :
        as \in SeqUpTo(ApiPool, MaxApiArticles)}
    \cup {[raises |-> FALSE, status_code |-> 500, articles |-> <<>>],
          [raises |-> TRUE, status_code |-> 0, articles |-> <<>>]}

\* the claims sent to /verify and typed into the script
ApiClaims == { <<>>, <<" ">>, <<"S","k","y"," ","i","s"," ","b","l","u","e">>, <<"i","s"," ","i","t">> }

\* the email of the one account of the model, and the passwords tried
Emails == { <<"a","@","x">> }
Passwords == { <<>>, <<"p","w">>, <<"p","w","1","2">> }
\* the usage counts the front end posts to /update_usage
UsageCounts == { Present(0) }

----------------------------------------------------------------------------
(* The state machine.                                                      *)

NoRequest == [op |-> "none"]
NoEnv == [op |-> "none"]
NoResponse == [kind |-> "none"]

\* the client has collected the last response and no request is being answered
Idle == req = NoRequest

Init ==
    /\ program \in {"main testing.py", "main.py", "news testing.py"}
    /\ model \in (IF program = "main testing.py" THEN {"loaded", "none"} ELSE {"none"})
    /\ search_file = <<>>
    /\ users = <<>>
    /\ vectorizer = Unfitted
    /\ req = NoRequest
    /\ env = NoEnv
    /\ calls = <<>>
    /\ news_items = <<>>
    /\ resp = NoResponse
    /\ prev = NoResponse
    /\ threads = <<>>
    /\ today = 0

\* what the collaborators of check_fact can answer for a request: no collaborator is
\* consulted for a rejected claim, and model.encode can raise only when it is called
CheckFactEnvs(request) ==
    IF TooShort(request.claim)
    THEN {[op |-> "check_fact", feed |-> f, encode_raises |-> FALSE] :
             f \in {x \in Feeds : x.raises}}
    ELSE {[op |-> "check_fact", feed |-> f, encode_raises |-> r] :
             f \in Feeds,
             r \in BOOLEAN} \ 
         {x \in [op : {"check_fact"}, feed : Feeds, encode_raises : {TRUE}] :
             model = "none" \/ fetch_google_news(x.feed, DefaultMaxResults) = <<>>}

\* POST /check-fact
CheckFact ==
    /\ program = "main testing.py"
    /\ Idle
    /\ \E claim \in Claims, user_email \in {Absent} :
         LET request == [op |-> "check_fact", claim |-> claim, user_email |-> user_email]
         IN  \E e \in CheckFactEnvs(request) :
               LET out == check_fact(model, request, e,
                                     fetch_google_news(e.feed, DefaultMaxResults))
               IN  /\ req' = request
                   /\ env' = e
                   /\ calls' = out.calls
                   /\ news_items' = out.news_items
                   /\ resp' = out.resp
                   /\ search_file' = search_file \o out.saved
                   /\ UNCHANGED <<today, threads, program, model, users, vectorizer, prev>>

\* The same request sent a second time in the same process, the collaborators
\* answering as before.  same_object: the retriever hands back the very list of the
\* first run (a stubbed retriever), which the first run scored and sorted in place;
\* otherwise it builds the list again from the feed.
CheckFactAgain ==
    /\ program = "main testing.py"
    /\ req # NoRequest /\ req.op = "check_fact"
    /\ prev = NoResponse
    /\ \E same_object \in BOOLEAN :
         LET fetched == IF same_object /\ resp.kind = "verdict" THEN news_items
                        ELSE fetch_google_news(env.feed, DefaultMaxResults)
             out == check_fact(model, req, env, fetched)
         IN  /\ prev' = resp
             /\ calls' = out.calls
             /\ news_items' = out.news_items
             /\ resp' = out.resp
             /\ search_file' = search_file \o out.saved
             /\ UNCHANGED <<today, threads, program, model, users, vectorizer, req, env>>

\* what the collaborators of verify can answer for a request: none is consulted for
\* a refused request, and the news API is asked only after query_keywords returned
VerifyEnvs(request) ==
    LET unasked == [raises |-> TRUE, status_code |-> 0, articles |-> <<>>]
    IN  IF \/ request.claim = <<>>
           \/ DailyLimitReached(users, request.user_email)
           \/ UsageCheckRaises(users, request.user_email)
        THEN {[op |-> "verify", nltk_raises |-> FALSE, response |-> unasked]}
        ELSE {[op |-> "verify", nltk_raises |-> TRUE, response |-> unasked]}
             \cup {[op |-> "verify", nltk_raises |-> FALSE, response |-> r] :
                      r \in ApiResponses}

\* POST /verify
Verify ==
    /\ program = "main.py"
    /\ Idle
    /\ \E claim \in ApiClaims, user_email \in {Absent} \cup Emails :
         LET request == [op |-> "verify", claim |-> claim, user_email |-> user_email]
         IN  \E e \in VerifyEnvs(request) :
               LET out == verify(users, vectorizer, request, e)
               IN  /\ req' = request
                   /\ env' = e
                   /\ calls' = out.calls
                   /\ resp' = out.resp
                   /\ vectorizer' = out.vectorizer
                   /\ UNCHANGED <<today, threads, program, model, search_file, users, news_items, prev>>

\* the same /verify request sent a second time, the collaborators answering as before
VerifyAgain ==
    /\ program = "main.py"
    /\ req # NoRequest /\ req.op = "verify"
    /\ prev = NoResponse
    /\ LET out == verify(users, vectorizer, req, env)
       IN  /\ prev' = resp
           /\ calls' = out.calls
           /\ resp' = out.resp
           /\ vectorizer' = out.vectorizer
           /\ UNCHANGED <<today, threads, program, model, search_file, users, news_items, req, env>>

\* POST /register
Register ==
    /\ program = "main.py"
    /\ Idle
    /\ \E raw \in Emails \cup {Absent}, password \in Passwords :
         LET email == Lower(Strip(raw))
             ok == email # <<>> /\ password # <<>> /\ Len(password) >= 4
         IN  /\ req' = [op |-> "register", claim |-> <<>>, user_email |-> email]
             /\ users' = IF ok THEN create_user(users, email, password, today) ELSE users
             /\ resp' = [kind |-> "json",
                         success |-> ok /\ get_user(users, email) = <<>>]
             /\ UNCHANGED <<today, threads, program, model, search_file, vectorizer, env, calls,
                            news_items, prev>>

\* POST /subscribe
Subscribe ==
    /\ program = "main.py"
    /\ Idle
    /\ \E raw \in Emails :
         LET email == Lower(Strip(raw))
             user == get_user(users, email)
             ok == user # <<>> /\ user[1].subscription # "Premium"
         IN  /\ req' = [op |-> "subscribe", claim |-> <<>>, user_email |-> email]
             /\ users' = IF ok THEN update_user_subscription(users, email, "Premium")
                         ELSE users
             /\ resp' = [kind |-> "json", success |-> ok]
             /\ UNCHANGED <<today, threads, program, model, search_file, vectorizer, env, calls,
                            news_items, prev>>

\* POST /update_usage, the usage_count of the body taken from counts
UpdateUsageWith(counts) ==
    /\ program = "main.py"
    /\ Idle
    /\ \E raw \in Emails, usage_count \in counts :
         LET email == Lower(Strip(raw))
         IN  /\ req' = [op |-> "update_usage", claim |-> <<>>, user_email |-> email]
             /\ users' = update_user_usage(users, email, usage_count)
             /\ resp' = [kind |-> "json", success |-> TRUE]
             /\ UNCHANGED <<today, threads, program, model, search_file, vectorizer, env, calls,
                            news_items, prev>>

UpdateUsage == UpdateUsageWith(UsageCounts)

\* one run of the script news testing.py, from the prompt to the end of the process
RunScript ==
    /\ program = "news testing.py"
    /\ Idle
    /\ \E user_input \in ApiClaims :
         \E api \in ScriptResponses :
           /\ req' = [op |-> "script", claim |-> user_input, user_email |-> <<>>]
           /\ env' = [op |-> "script", api |-> api]
           /\ calls' = Call("clean") \o Call("get_everything")
           /\ resp' = news_testing(user_input, api)
           /\ UNCHANGED <<today, threads, program, model, search_file, users, vectorizer, news_items, prev>>

\* the client takes the response; the request's records are dropped
Collect ==
    /\ req # NoRequest
    /\ req' = NoRequest
    /\ env' = NoEnv
    /\ calls' = <<>>
    /\ news_items' = <<>>
    /\ resp' = NoResponse
    /\ prev' = NoResponse
    /\ UNCHANGED <<today, threads, program, model, search_file, users, vectorizer>>

Next ==
    \/ CheckFact
    \/ CheckFactAgain
    \/ Verify
    \/ VerifyAgain
    \/ Register
    \/ Subscribe
    \/ UpdateUsage
    \/ RunScript
    \/ Collect

Spec == Init /\ [][Next]_vars

\* a sequence of numbers that never rises
(* main.py under the threaded server: /verify requests that overlap.  All  *)
(* of them call verify_statement on the one verifier, whose vectorizer     *)
(* every fit_transform fits anew.                                          *)

\* the requests answered at the same time
Threads == {1, 2}
\* longest article list NewsAPI returns to an overlapping request
MaxOverlapArticles == 1

\* the claims and the answers of NewsAPI of the overlapping requests
OverlapClaims == { <<"S","k","y"," ","i","s"," ","b","l","u","e">> }
OverlapResponses == {r \in ApiResponses : Len(r.articles) <= MaxOverlapArticles}

\* [clean_statement] + clean_articles as fit_transform's analyzer reads them: each
\* document by its terms
StatementDocs(statement, articles) ==
    [i \in 1..(Len(articles) + 1) |->
        Terms(clean_text(IF i = 1 THEN statement ELSE articles[i - 1]))]

\* the terms of a vocabulary in the order of their column indices: sorted
Columns(vocabulary) ==
    LET Pos(t) == Cardinality({u \in vocabulary : StrLess(u, t)}) + 1
    IN  [n \in 1..Cardinality(vocabulary) |-> CHOOSE t \in vocabulary : Pos(t) = n]

\* The idf weights a call reads from the shared vectorizer v after its own fit gave
\* own: the weights are stored by column, so the call's k-th term gets the weight
\* of the k-th column of v
ColumnIdf(v, own) ==
    LET mine == Columns(own.vocabulary)
        theirs == Columns(v.vocabulary)
    IN  [vocabulary |-> own.vocabulary,
         idf |-> [t \in own.vocabulary |->
                     v.idf[theirs[CHOOSE k \in DOMAIN mine : mine[k] = t]]]]

\* The second half of fit_transform and the rest of verify_statement, for a call
\* whose documents are docs, reading the idf from the shared vectorizer v: a v with
\* another number of columns raises ValueError, which verify_statement catches
TransformAndCompare(v, docs, articles) ==
    LET own == Fit(docs)
    IN  IF Cardinality(v.vocabulary) # Cardinality(own.vocabulary)
        THEN [is_true |-> FALSE, confidence |-> 0,
              article_count |-> Len(articles), sample_articles |-> Take(articles, 5)]
        ELSE LET weights == ColumnIdf(v, own)
                 similarities ==
                     [i \in DOMAIN articles |->
                         cosine_similarity(weights, docs[1], docs[i + 1])]
                 max_similarity == MaxOf(similarities)
             IN  [is_true |-> max_similarity > 50,
                  confidence |-> max_similarity * 100,
                  article_count |-> Len(articles),
                  sample_articles |-> Take(articles, 5)]

NoThread == [pc |-> "idle", claim |-> <<>>, response |-> <<>>, result |-> NoResponse]

OverlapInit ==
    /\ program = "main.py"
    /\ model = "none"
    /\ search_file = <<>>
    /\ users = <<>>
    /\ vectorizer = Unfitted
    /\ req = NoRequest
    /\ env = NoEnv
    /\ calls = <<>>
    /\ news_items = <<>>
    /\ resp = NoResponse
    /\ prev = NoResponse
    /\ threads = [t \in Threads |-> NoThread]
    /\ today = 0

\* verify() up to the call of fit_transform: the claim is read, the query built and
\* the articles fetched, all in the thread's own objects
VerifyStart(t) ==
    /\ threads[t].pc = "idle"
    /\ \E claim \in OverlapClaims, response \in OverlapResponses :
         LET articles == get_news_articles(response)
         IN  threads' = [threads EXCEPT ![t] =
                 IF articles = <<>>
                 THEN [pc |-> "done", claim |-> claim, response |-> <<response>>,
                       result |-> render_result_page(claim, FALSE, 0, 0, <<>>, "")]
                 ELSE [pc |-> "fit", claim |-> claim, response |-> <<response>>,
                       result |-> NoResponse]]
    /\ UNCHANGED <<today, program, model, search_file, users, vectorizer, req, env, calls,
                   news_items, resp, prev>>

\* the first half of fit_transform: the vocabulary and the idf of the thread's
\* documents are stored in the shared vectorizer; an empty vocabulary raises
\* ValueError before anything is stored
VerifyFit(t) ==
    /\ threads[t].pc = "fit"
    /\ LET articles == get_news_articles(threads[t].response[1])
           fitted == Fit(StatementDocs(threads[t].claim, articles))
       IN  IF fitted.vocabulary = {}
           THEN /\ threads' = [threads EXCEPT
                       ![t].pc = "done",
                       ![t].result = render_result_page(threads[t].claim, FALSE, 0,
                                         Len(articles), Take(articles, 5), "")]
                /\ UNCHANGED vectorizer
           ELSE /\ threads' = [threads EXCEPT ![t].pc = "transform"]
                /\ vectorizer' = fitted
    /\ UNCHANGED <<today, program, model, search_file, users, req, env, calls,
                   news_items, resp, prev>>

\* the second half of fit_transform, the similarities and the page
VerifyTransform(t) ==
    /\ threads[t].pc = "transform"
    /\ LET articles == get_news_articles(threads[t].response[1])
           out == TransformAndCompare(vectorizer,
                      StatementDocs(threads[t].claim, articles), articles)
       IN  threads' = [threads EXCEPT
               ![t].pc = "done",
               ![t].result = render_result_page(threads[t].claim, out.is_true,
                                 out.confidence, out.article_count,
                                 out.sample_articles, "")]
    /\ UNCHANGED <<today, program, model, search_file, users, vectorizer, req, env, calls,
                   news_items, resp, prev>>

\* the page is sent and the thread takes the next request
VerifyReturn(t) ==
    /\ threads[t].pc = "done"
    /\ threads' = [threads EXCEPT ![t] = NoThread]
    /\ UNCHANGED <<today, program, model, search_file, users, vectorizer, req, env, calls,
                   news_items, resp, prev>>

OverlapNext ==
    \E t \in Threads :
        \/ VerifyStart(t)
        \/ VerifyFit(t)
        \/ VerifyTransform(t)
        \/ VerifyReturn(t)

OverlapSpec == OverlapInit /\ [][OverlapNext]_vars

----------------------------------------------------------------------------

(* main.py and its accounts: register, login, subscribe, update_usage and   *)
(* verify requests in any order, over the days of the server's clock.      *)

\* last day of the server's clock
MaxDays == 1

\* the usage_count a client posts to /update_usage: a JSON null or a number
QuotaUsageCounts == { Absent, Present(-1), Present(0), Present(1) }

QuotaInit ==
    /\ program = "main.py"
    /\ model = "none"
    /\ search_file = <<>>
    /\ users = <<>>
    /\ vectorizer = Unfitted
    /\ req = NoRequest
    /\ env = NoEnv
    /\ calls = <<>>
    /\ news_items = <<>>
    /\ resp = NoResponse
    /\ prev = NoResponse
    /\ threads = <<>>
    /\ today = 0

\* POST /login
Login ==
    /\ program = "main.py"
    /\ Idle
    /\ \E raw \in Emails, password \in Passwords :
         LET email == Lower(Strip(raw))
             user == get_user(users, email)
             ok == /\ email # <<>> /\ password # <<>>
                   /\ user # <<>>
                   /\ user[1].password_hash = hash_password(password)
         IN  /\ req' = [op |-> "login", claim |-> <<>>, user_email |-> email]
             /\ users' = IF ok THEN login(users, email, password, today) ELSE users
             /\ resp' = [kind |-> "json", success |-> ok]
             /\ UNCHANGED <<today, threads, program, model, search_file, vectorizer, env,
                            calls, news_items, prev>>

\* POST /update_usage with any usage_count
UpdateUsageAny == UpdateUsageWith(QuotaUsageCounts)

\* the claims of the signed-in clients, and what NewsAPI answers them: no article,
\* one article, an error status or an exception
QuotaClaims == { <<>>, <<"S","k","y"," ","i","s"," ","b","l","u","e">> }
QuotaResponses ==
    {r \in ApiResponses : \/ r.articles = <<>>
                          \/ Len(r.articles) = 1 /\ r.articles[1].title = Present(<<"S","k","y"," ","i","s">>)}

\* POST /verify of a client that may be signed in
VerifySignedIn ==
    /\ program = "main.py"
    /\ Idle
    /\ \E claim \in QuotaClaims, user_email \in {Absent} \cup Emails :
         LET request == [op |-> "verify", claim |-> claim, user_email |-> user_email]
         IN  \E e \in {x \in VerifyEnvs(request) : x.response \in QuotaResponses} :
               LET out == verify(users, vectorizer, request, e)
               IN  /\ req' = request
                   /\ env' = e
                   /\ calls' = out.calls
                   /\ resp' = out.resp
                   /\ vectorizer' = out.vectorizer
                   /\ UNCHANGED <<today, threads, program, model, search_file, users,
                                  news_items, prev>>

\* midnight passes
NewDay ==
    /\ Idle
    /\ today < MaxDays
    /\ today' = today + 1
    /\ UNCHANGED <<threads, program, model, search_file, users, vectorizer, req, env,
                   calls, news_items, resp, prev>>

QuotaNext ==
    \/ Register
    \/ Login
    \/ Subscribe
    \/ UpdateUsageAny
    \/ VerifySignedIn
    \/ NewDay
    \/ Collect

QuotaSpec == QuotaInit /\ [][QuotaNext]_vars

----------------------------------------------------------------------------

(* The two services with signed-in users: /check-fact requests that carry  *)
(* a user's email and write search.txt, and /verify requests that read the *)
(* users table.                                                            *)

\* most lines of search.txt
MaxHistory == 2

\* the claims of the signed-in users
HistoryClaims == { <<"a","b">>, <<"S","k","y"," ","i","s"," ","b","l","u","e">> }

\* the feeds of these requests: no entry, one entry, and a feed that cannot be reached
HistoryFeeds ==
    {f \in Feeds : \/ Len(f.entries) = 0
                   \/ Len(f.entries) = 1 /\ f.entries[1].title = Present(<<"S","k","y"," ","i","s">>)}

\* save_search_history(item): the line is appended to search.txt, or, when the file
\* cannot be written, the error is logged and the file is left as it is
save_search_history(file, items, write_fails) ==
    IF write_fails THEN file ELSE file \o items

HistoryInit ==
    /\ program \in {"main testing.py", "main.py"}
    /\ model \in (IF program = "main testing.py" THEN {"loaded"} ELSE {"none"})
    /\ search_file = <<>>
    /\ users = <<>>
    /\ vectorizer = Unfitted
    /\ req = NoRequest
    /\ env = NoEnv
    /\ calls = <<>>
    /\ news_items = <<>>
    /\ resp = NoResponse
    /\ prev = NoResponse
    /\ threads = <<>>
    /\ today = 0

\* POST /check-fact of a client that may be signed in
CheckFactSigned ==
    /\ program = "main testing.py"
    /\ Idle
    /\ Len(search_file) < MaxHistory
    /\ \E claim \in HistoryClaims, user_email \in {Absent} \cup Emails,
          feed \in HistoryFeeds, encode_raises \in BOOLEAN, write_fails \in BOOLEAN :
         LET request == [op |-> "check_fact", claim |-> claim, user_email |-> user_email]
             e == [op |-> "check_fact", feed |-> feed, encode_raises |-> encode_raises,
                   write_fails |-> write_fails]
             out == check_fact(model, request, e,
                               fetch_google_news(feed, DefaultMaxResults))
         IN  /\ encode_raises => "calculate_semantic_similarity" \in Range(out.calls)
             /\ write_fails => out.saved # <<>>
             /\ req' = request
             /\ env' = e
             /\ calls' = out.calls
             /\ news_items' = out.news_items
             /\ resp' = out.resp
             /\ search_file' = save_search_history(search_file, out.saved, write_fails)
             /\ UNCHANGED <<today, threads, program, model, users, vectorizer, prev>>

HistoryNext ==
    \/ CheckFactSigned
    \/ Verify
    \/ Register
    \/ Subscribe
    \/ UpdateUsage
    \/ Collect

HistorySpec == HistoryInit /\ [][HistoryNext]_vars

----------------------------------------------------------------------------

(* The functions of the pipeline, each called on its own.                  *)

\* longest text, in words, handed to a function
MaxWords == 11
\* longest text, in characters, built from single characters
MaxChars == 4

\* the words the texts are built from: a keyword with a capital, and a stop word
WordPool == { <<"S","k","y">>, <<"i","s">> }
\* the characters the short texts are built from
CharPool == { "a", "B", " ", "-" }

\* the texts handed to the functions: words joined by blanks, and short strings
Texts ==
    {Join(ws, <<" ">>) : ws \in SeqUpTo(WordPool, MaxWords)}
    \cup SeqUpTo(CharPool, MaxChars)

\* the texts of letters and whitespace
PlainTexts == {t \in Texts : \A i \in DOMAIN t : IsAlpha(t[i]) \/ IsSpace(t[i])}

FunctionInit ==
    /\ program \in {"main testing.py", "main.py", "news testing.py", "news.py"}
    /\ model = "none"
    /\ search_file = <<>>
    /\ users = <<>>
    /\ vectorizer = Unfitted
    /\ req = NoRequest
    /\ env = NoEnv
    /\ calls = <<>>
    /\ news_items = <<>>
    /\ resp = NoResponse
    /\ prev = NoResponse
    /\ threads = <<>>
    /\ today = 0

\* largest of the small max_results handed to fetch_google_news
MaxRequested == 2

\* the max_results of the calls: small ones, which cut the feed, and the default
RequestedMaximums == (0..MaxRequested) \cup {DefaultMaxResults}

\* a call of extract_keywords(claim)
ExtractKeywords ==
    /\ program = "main testing.py"
    /\ Idle
    /\ \E claim \in Texts :
         /\ req' = [op |-> "extract_keywords", claim |-> claim, user_email |-> <<>>]
         /\ resp' = [kind |-> "text", text |-> extract_keywords(claim)]
         /\ UNCHANGED <<today, threads, program, model, search_file, users, vectorizer, env, calls,
                        news_items, prev>>

\* a call of verifier.query_keywords(statement)
QueryKeywords ==
    /\ program = "main.py"
    /\ Idle
    /\ \E statement \in PlainTexts :
         /\ req' = [op |-> "query_keywords", claim |-> statement, user_email |-> <<>>]
         /\ resp' = [kind |-> "text", text |-> query_keywords(statement)]
         /\ UNCHANGED <<today, threads, program, model, search_file, users, vectorizer, env, calls,
                        news_items, prev>>

\* a call of fetch_google_news(query, max_results): one feedparser.parse, whose
\* answer is feed
FetchGoogleNews ==
    /\ program = "main testing.py"
    /\ Idle
    /\ \E feed \in Feeds, max_results \in RequestedMaximums :
         /\ req' = [op |-> "fetch_google_news", claim |-> <<>>, user_email |-> <<>>,
                    max_results |-> max_results]
         /\ env' = [op |-> "fetch_google_news", feed |-> feed]
         /\ calls' = Call("feedparser.parse")
         /\ resp' = [kind |-> "news_items", news |-> fetch_google_news(feed, max_results)]
         /\ UNCHANGED <<today, threads, program, model, search_file, users, vectorizer,
                        news_items, prev>>

\* a call of verifier.get_news_articles(query): one requests.get, whose answer is
\* response
GetNewsArticles ==
    /\ program = "main.py"
    /\ Idle
    /\ \E response \in ApiResponses :
         /\ req' = [op |-> "get_news_articles", claim |-> <<>>, user_email |-> <<>>]
         /\ env' = [op |-> "get_news_articles", response |-> response]
         /\ calls' = Call("requests.get")
         /\ resp' = [kind |-> "articles", articles |-> get_news_articles(response)]
         /\ UNCHANGED <<today, threads, program, model, search_file, users, vectorizer,
                        news_items, prev>>

\* a call of verifier.clean_text(text)
CleanText ==
    /\ program = "main.py"
    /\ Idle
    /\ \E text \in Texts :
         /\ req' = [op |-> "clean_text", claim |-> text, user_email |-> <<>>]
         /\ resp' = [kind |-> "text", text |-> clean_text(text)]
         /\ UNCHANGED <<today, threads, program, model, search_file, users, vectorizer, env, calls,
                        news_items, prev>>

\* a call of clean(text) in news testing.py
Clean ==
    /\ program = "news testing.py"
    /\ Idle
    /\ \E text \in Texts :
         /\ req' = [op |-> "clean", claim |-> text, user_email |-> <<>>]
         /\ resp' = [kind |-> "text", text |-> clean(text)]
         /\ UNCHANGED <<today, threads, program, model, search_file, users, vectorizer, env, calls,
                        news_items, prev>>

\* a call of clean_text(text) in news.py
NewsCleanText ==
    /\ program = "news.py"
    /\ Idle
    /\ \E text \in Texts :
         /\ req' = [op |-> "news.clean_text", claim |-> text, user_email |-> <<>>]
         /\ resp' = [kind |-> "text", text |-> news_clean_text(text)]
         /\ UNCHANGED <<today, threads, program, model, search_file, users, vectorizer, env, calls,
                        news_items, prev>>

FunctionNext ==
    \/ ExtractKeywords
    \/ QueryKeywords
    \/ FetchGoogleNews
    \/ GetNewsArticles
    \/ CleanText
    \/ Clean
    \/ NewsCleanText
    \/ Collect

FunctionSpec == FunctionInit /\ [][FunctionNext]_vars

----------------------------------------------------------------------------
(* verify_statement of main.py, called on its own on the one verifier.     *)

\* most articles handed to verify_statement
MaxStatementArticles == 6

\* the statements handed to verify_statement: two keywords and a stop word
StatementPool == { <<"S","k","y">>, <<"M","u">>, <<"i","s">> }

\* the articles get_news_articles hands it: one that names the sky once among many
\* words of another kind, and the article whose title and description are null
ArticleStrings ==
    { <<"s","k","y"," ","m","u"," ","m","u"," ","m","u"," ","m","u"," ","m","u"," ","m","u"," ","m","u"," ","m","u"," ","m","u"," ","m","u"," ","m","u"," ","m","u"," ","m","u"," ","m","u"," ","m","u"," ","m","u"," ","m","u">>,
      <<" ">> }

\* the lists get_news_articles hands it: one of these articles, then articles
\* without title and description
ArticleLists ==
    {[i \in 1..k |-> IF i = 1 THEN first ELSE <<" ">>] :
        k \in 0..MaxStatementArticles, first \in ArticleStrings}

StatementInit ==
    /\ program = "main.py"
    /\ model = "none"
    /\ search_file = <<>>
    /\ users = <<>>
    /\ vectorizer = Unfitted
    /\ req = NoRequest
    /\ env = NoEnv
    /\ calls = <<>>
    /\ news_items = <<>>
    /\ resp = NoResponse
    /\ prev = NoResponse
    /\ threads = <<>>
    /\ today = 0

\* a call of verifier.verify_statement(statement), get_news_articles answering with
\* articles
VerifyStatement ==
    /\ program = "main.py"
    /\ Idle
    /\ \E statement \in StatementPool,
          articles \in ArticleLists :
         LET out == verify_statement(vectorizer, statement, articles)
         IN  /\ req' = [op |-> "verify_statement", claim |-> statement, user_email |-> <<>>]
             /\ env' = [op |-> "verify_statement", articles |-> articles]
             /\ resp' = [kind |-> "result",
                         is_true |-> out.is_true,
                         confidence |-> out.confidence,
                         article_count |-> out.article_count,
                         sample_articles |-> out.sample_articles]
             /\ vectorizer' = out.vectorizer
             /\ UNCHANGED <<today, threads, program, model, search_file, users, calls,
                            news_items, prev>>

StatementNext ==
    \/ VerifyStatement
    \/ Collect

StatementSpec == StatementInit /\ [][StatementNext]_vars

----------------------------------------------------------------------------

(* The properties.                                                         *)

NonIncreasing(scores) == \A i \in 1..(Len(scores) - 1) : scores[i] >= scores[i + 1]

\* the similarities of the request's article records, in their order
Scores == [i \in DOMAIN news_items |-> Similarity(news_items[i])]

\* the request went through the verdict classifier of check_fact
Classified ==
    /\ req.op = "check_fact"
    /\ resp.kind = "verdict"
    /\ "analyze_claim_against_news" \in Range(calls)

\* the text of the i-th article record, as the classifier reads it
TextOf(i) == news_items[i].title \o <<" ">> \o news_items[i].description

\* the threshold policy answers 'Likely True' for the request's article records
ThresholdLikelyTrue ==
    /\ Classified
    /\ MaxOf(Scores) > 700
    /\ Cardinality({i \in DOMAIN news_items : Scores[i] > 500}) >= 2

\* the confidence of 'Likely True' before any damping
Undamped == Min(900, MaxOf(Scores) + 100)

\* C1: a claim that passes validation and for which the retriever returns no article
\* is answered by check_fact with the verdict 'Unverified', the confidence 0.0 and no
\* ranked article, and analyze_claim_against_news answers the empty list with
\* 'Unverified' and 0.0.
C1_NoArticlesUnverified ==
    (req.op = "check_fact" /\ resp.kind = "verdict"
        /\ fetch_google_news(env.feed, DefaultMaxResults) = <<>>)
    => /\ resp.verdict = "Unverified"
       /\ resp.confidence = 0
       /\ resp.news_sources = <<>>
       /\ news_items = <<>>
       /\ analyze_claim_against_news(req.claim, <<>>).verdict = "Unverified"
       /\ analyze_claim_against_news(req.claim, <<>>).confidence = 0

\* a valid claim, a feed that parsed and held no entry, and the answer returned
C1_NoArticlesAnswered ==
    /\ req.op = "check_fact"
    /\ req.claim = <<"S","k","y"," ","i","s"," ","b","l","u","e">>
    /\ ~env.feed.raises /\ env.feed.status = 200 /\ env.feed.entries = <<>>
    /\ resp.kind = "verdict"
    /\ resp.verdict = "Unverified"

\* C2: the confidence of analyze_claim_against_news, as the threshold policy sets it
\* and as the contradiction loop leaves it, lies in [0, 1], and the percentage of
\* verify_statement lies in [0, 100].
C2_ConfidenceInRange ==
    /\ Classified =>
          /\ 0 <= resp.confidence /\ resp.confidence <= 1000
          /\ MaxOf(Scores) # 0 =>
                /\ 0 <= ThresholdVerdict(news_items).confidence
                /\ ThresholdVerdict(news_items).confidence <= 1000
    /\ (req.op = "verify" /\ resp.kind = "page") =>
          (0 <= resp.confidence /\ resp.confidence <= 100000)

\* the classifier answered an article list whose best similarity is -1.0 with the
\* confidence 1.0, the upper end of the range
C2_ConfidenceAtUpperEnd ==
    /\ Classified
    /\ MaxOf(Scores) = -1000
    /\ resp.verdict = "Likely False"
    /\ resp.confidence = 1000

\* C3: when the article source answers with a non-success status, or the request or
\* the parsing raises, the retriever returns the empty list and the verification
\* ends with the verdict 'Unverified' and the confidence 0.0.
C3_FailedRetrievalUnverified ==
    /\ (req.op = "check_fact" /\ "fetch_google_news" \in Range(calls)
           /\ (env.feed.raises \/ env.feed.status # 200))
       => /\ fetch_google_news(env.feed, DefaultMaxResults) = <<>>
          /\ resp.kind = "verdict"
          /\ resp.verdict = "Unverified"
          /\ resp.confidence = 0
    /\ (req.op = "verify" /\ "get_news_articles" \in Range(calls)
           /\ (env.response.raises \/ env.response.status_code # 200))
       => /\ get_news_articles(env.response) = <<>>
          /\ resp.kind = "page"
          /\ resp.error_msg = ""
          /\ resp.label = "Unverified"
          /\ resp.confidence = 0

\* C4: a claim that is empty, or in check_fact shorter than three characters once
\* trimmed, is rejected as invalid input, and no stage of the pipeline runs for it.
C4_InvalidClaimRejected ==
    /\ (req.op = "check_fact" /\ (req.claim = <<>> \/ Len(Strip(req.claim)) < 3))
       => /\ resp.kind = "rejected"
          /\ resp.status = 400
          /\ calls = <<>>
          /\ news_items = <<>>
    /\ (req.op = "verify" /\ req.claim = <<>>)
       => /\ resp.kind = "page"
          /\ resp.error_msg = "No claim provided"
          /\ resp.label = ""
          /\ calls = <<>>

\* a claim of five characters, two of them once trimmed, was rejected
C4_PaddedClaimRejected ==
    /\ req.op = "check_fact"
    /\ req.claim = <<" ","a","b"," "," ">>
    /\ resp.kind = "rejected"

\* C5: whatever the claim and whatever the collaborators answer, every verification
\* entry point ends with a verdict or with an explicit rejection, never with an
\* exception handed to its caller.
C5_VerdictOrRejection ==
    (req.op \in {"check_fact", "verify", "script"})
    => \/ resp.kind = "verdict"
       \/ resp.kind = "rejected"
       \/ resp.kind = "page" /\ (resp.label # "" \/ resp.error_msg # "")

\* C6: when the verdict classifier runs, the article records it receives are in
\* non-increasing order of similarity, and the ranked articles of the response are
\* those records in that order, on the degraded path as well.
C6_RankedNonIncreasing ==
    Classified =>
       /\ NonIncreasing(Scores)
       /\ Len(resp.news_sources) = Min(10, Len(news_items))
       /\ \A i \in DOMAIN resp.news_sources :
             /\ resp.news_sources[i].title = news_items[i].title
             /\ resp.news_sources[i].similarity = Scores[i]
       /\ NonIncreasing([i \in DOMAIN resp.news_sources |-> resp.news_sources[i].similarity])

\* the feed listed a weaker article before a stronger one, and the scorer ranked them
C6_RankingReordered ==
    /\ Classified
    /\ model = "loaded" /\ ~env.encode_raises
    /\ Len(env.feed.entries) >= 2
    /\ Len(news_items) = Len(env.feed.entries)
    /\ LET fetched == fetch_google_news(env.feed, DefaultMaxResults)
       IN  Dot(req.claim, fetched[1].title \o <<" ">> \o fetched[1].description)
             < Dot(req.claim, fetched[2].title \o <<" ">> \o fetched[2].description)
    /\ Scores[1] > Scores[Len(Scores)]

\* the titles with the score s, in the order of a list of <<score, title>> pairs
TitlesScored(pairs, s) ==
    LET kept == SelectIdx(pairs, {i \in DOMAIN pairs : pairs[i][1] = s})
    IN  [i \in DOMAIN kept |-> kept[i][2]]

\* articles with equal scores stand in the ranking in the order of the retrieval
SameOrderAmongEqual(retrieved, ranked) ==
    \A i \in DOMAIN retrieved :
        TitlesScored(ranked, retrieved[i][1]) = TitlesScored(retrieved, retrieved[i][1])

\* C7: in every script that ranks articles, two retrieved articles with equal
\* similarity scores keep in the ranking the order they had in the retrieval.
C7_EqualScoresKeepRetrievalOrder ==
    /\ Classified =>
          LET fetched == fetch_google_news(env.feed, DefaultMaxResults)
          IN  SameOrderAmongEqual(
                  [i \in DOMAIN fetched |->
                      <<IF model = "loaded" /\ ~env.encode_raises
                        THEN Dot(req.claim, fetched[i].title \o <<" ">> \o fetched[i].description)
                        ELSE 0,
                        fetched[i].title>>],
                  [i \in DOMAIN news_items |-> <<Scores[i], news_items[i].title>>])
    /\ (req.op = "script" /\ resp.kind = "verdict") =>
          SameOrderAmongEqual(
              [i \in DOMAIN env.api.articles |->
                  <<BertCosine(req.claim, ArticleString(env.api.articles[i])),
                    env.api.articles[i].title[1]>>],
              [i \in DOMAIN resp.ranking |-> <<resp.ranking[i].score, resp.ranking[i].title>>])

\* C8: the same claim verified a second time in the same process, the collaborators
\* answering as before, gets the response of the first run: the same verdict, the
\* same confidence and the same ranking, whether the second run is handed the article
\* records the first run scored and sorted in place or a list built anew, and on the
\* vectorizer the first run fitted.
C8_SecondRunSameResponse ==
    (prev # NoResponse) => resp = prev

\* a second run of check_fact answered, its ranking holding two different articles of
\* equal similarity
C8_SecondRunWithTie ==
    /\ req.op = "check_fact"
    /\ prev # NoResponse
    /\ resp.kind = "verdict"
    /\ \E i, j \in DOMAIN resp.news_sources :
          /\ i < j
          /\ resp.news_sources[i].similarity = resp.news_sources[j].similarity
          /\ resp.news_sources[i].title # resp.news_sources[j].title

\* the lexicon as C9 names it, with the words of the contradiction loop
StatedLexicon == {<<"n","o","t">>, <<"f","a","l","s","e">>, <<"d","e","n","i","e","s">>, <<"h","o","a","x">>, <<"d","e","b","u","n","k","e","d">>,
                  <<"n","e","v","e","r">>, <<"r","e","f","u","t","e","s">>, <<"c","o","n","t","r","a","r","y">>, <<"o","p","p","o","s","i","t","e">>}

\* C9 as stated: when the threshold policy yields 'Likely True' and one of the three
\* highest-similarity articles contains a keyword of the lexicon, "hoax" and
\* "debunked" among them, the verdict is 'Contradictory Reports' and the confidence
\* is the undamped one times 0.7.
C9_AsStated ==
    (/\ ThresholdLikelyTrue
     /\ NonIncreasing(Scores)
     /\ \E i \in 1..Min(3, Len(news_items)) :
           \E keyword \in StatedLexicon : Contains(keyword, Lower(TextOf(i))))
    => /\ resp.verdict = "Contradictory Reports"
       /\ resp.confidence = (Undamped * 700) \div 1000

\* the lexicon of the contradiction loop
LoopLexicon == {<<"n","o","t">>, <<"n","e","v","e","r">>, <<"f","a","l","s","e">>, <<"d","e","n","i","e","s">>, <<"r","e","f","u","t","e","s">>,
                <<"c","o","n","t","r","a","r","y">>, <<"o","p","p","o","s","i","t","e">>}

\* C9: when the threshold policy yields 'Likely True', the verdict becomes
\* 'Contradictory Reports', with the undamped confidence times 0.7, exactly when one
\* of the first three articles with a similarity above 0.5 holds, in its lower-cased
\* title and description, one of "not", "never", "false", "denies", "refutes",
\* "contrary", "opposite" as a substring; otherwise the verdict stays 'Likely True'
\* with the undamped confidence.
C9_ContradictionOverride ==
    ThresholdLikelyTrue =>
       LET high == {i \in DOMAIN news_items : Scores[i] > 500}
           first_three == {i \in high : Cardinality({j \in high : j < i}) < 3}
       IN  IF \E i \in first_three :
                 \E keyword \in LoopLexicon : Contains(keyword, Lower(TextOf(i)))
           THEN /\ resp.verdict = "Contradictory Reports"
                /\ resp.confidence = (Undamped * 700) \div 1000
           ELSE /\ resp.verdict = "Likely True"
                /\ resp.confidence = Undamped

\* a 'Likely True' of the threshold policy was turned into 'Contradictory Reports'
\* with 0.9 * 0.7 as its confidence
C9_OverrideApplied ==
    /\ ThresholdLikelyTrue
    /\ resp.verdict = "Contradictory Reports"
    /\ resp.confidence = 630

\* the retrieval returned one article, its text the claim's own, scored 1.0
OneIdenticalItem ==
    /\ req.op = "check_fact"
    /\ resp.kind = "verdict"
    /\ Len(news_items) = 1
    /\ TextOf(1) = req.claim
    /\ Scores[1] = 1000

\* NewsAPI returned one article, its text the claim's own
OneIdenticalArticle ==
    /\ req.op = "verify"
    /\ resp.kind = "page"
    /\ "get_news_articles" \in Range(calls)
    /\ get_news_articles(env.response) = <<req.claim>>

\* C10 as stated: one retrieved article identical to the claim yields the top
\* confirming label, 'Likely True' in check_fact and is_true in verify_statement,
\* with a confidence at or near the method's maximum.
C10_AsStated ==
    /\ OneIdenticalItem =>
          (resp.verdict = "Likely True" /\ resp.confidence >= 900)
    /\ OneIdenticalArticle =>
          (resp.label = "LIKELY TRUE" /\ resp.confidence >= 99000)

\* C10: one retrieved article identical to the claim yields, in check_fact,
\* 'Possibly True' with the confidence 0.8, 'Likely True' asking for two articles
\* above 0.5; in verify_statement it yields is_true with a confidence of 100 when a
\* term of the claim survives the vectorizer's tokenizer and stop words, and
\* otherwise not is_true with the confidence 0.0.
C10_SingleIdenticalArticle ==
    /\ OneIdenticalItem =>
          (resp.verdict = "Possibly True" /\ resp.confidence = 800)
    /\ OneIdenticalArticle =>
          IF Terms(clean_text(req.claim)) # <<>>
          THEN resp.label = "LIKELY TRUE" /\ resp.confidence >= 99000
                  /\ resp.confidence <= 100000
          ELSE resp.label = "LIKELY FALSE" /\ resp.confidence = 0

\* check_fact answered a claim whose one retrieved article is the claim's own text
C10_IdenticalItemAnswered ==
    /\ OneIdenticalItem
    /\ req.claim = <<"S","k","y"," ","i","s"," ","b","l","u","e">>
    /\ resp.verdict = "Possibly True"

\* C11: when the embedding backend is unavailable (the model did not load) or
\* model.encode raises, the scorer gives every retrieved article the similarity 0.0,
\* drops none, and the request ends with a well-formed verdict.
C11_BackendFailureDegrades ==
    (req.op = "check_fact" /\ "calculate_semantic_similarity" \in Range(calls)
        /\ (model = "none" \/ env.encode_raises))
    => /\ Len(news_items) = Len(fetch_google_news(env.feed, DefaultMaxResults))
       /\ \A i \in DOMAIN news_items : news_items[i].similarity = <<0>>
       /\ resp.kind = "verdict"
       /\ resp.status = 200
       /\ resp.verdict = "Unverified"
       /\ resp.confidence = 100
       /\ Len(resp.news_sources) = Len(news_items)
       /\ \A i \in DOMAIN resp.news_sources : resp.news_sources[i].similarity = 0

\* model.encode raised on a request with two retrieved articles, and it was answered
C11_EncodeRaisedAnswered ==
    /\ req.op = "check_fact"
    /\ model = "loaded"
    /\ env.encode_raises
    /\ Len(news_items) >= 2
    /\ resp.kind = "verdict"

\* C12: for every non-empty claim the keyword extractor returns a non-empty query;
\* when the filtering removes every token it returns the claim itself.
C12_QueryNeverEmpty ==
    (req.op \in {"extract_keywords", "query_keywords"} /\ req.claim # <<>>)
    => /\ resp.text # <<>>
       /\ LET words == Range(WordRuns(Lower(req.claim)))
              dropped == IF req.op = "extract_keywords"
                         THEN stopwords \cup {w \in words : Len(w) <= 2}
                         ELSE nltk_stop_words \cup question_words
          IN  words \subseteq dropped => resp.text = req.claim

\* C13: requests answered at the same time share no object that one of them writes,
\* so each request gets the result it gets when it runs alone.
C13_ResultAsAlone ==
    \A t \in DOMAIN threads :
        threads[t].pc = "done"
        => threads[t].result =
              verify(users, Unfitted,
                     [op |-> "verify", claim |-> threads[t].claim, user_email |-> <<>>],
                     [op |-> "verify", nltk_raises |-> FALSE,
                      response |-> threads[t].response[1]]).resp

\* how often x occurs in a sequence
CountIn(x, s) == Cardinality({i \in DOMAIN s : s[i] = x})

\* C14: after the scorer has run on a retrieved article list, every retrieved article
\* carries one similarity score: there are as many scores as retrieved articles, and
\* no article is dropped or duplicated.
C14_OneScorePerArticle ==
    /\ (req.op = "check_fact" /\ "calculate_semantic_similarity" \in Range(calls)) =>
          LET fetched == fetch_google_news(env.feed, DefaultMaxResults)
              Bare(items) == [i \in DOMAIN items |-> <<items[i].title, items[i].description>>]
          IN  /\ Len(news_items) = Len(fetched)
              /\ \A i \in DOMAIN news_items : Len(news_items[i].similarity) = 1
              /\ \A i \in DOMAIN fetched :
                    CountIn(Bare(fetched)[i], Bare(news_items))
                        = CountIn(Bare(fetched)[i], Bare(fetched))
    /\ (req.op = "script" /\ ~env.api.raises) =>
          Len(resp.similarities) = Len(env.api.articles)

\* a step that answers a request of a client
Answers == req = NoRequest /\ req' # NoRequest /\ req'.op \in {"check_fact", "verify"}

C16_LikelyTrueThresholds ==
    (Classified /\ news_items # <<>>) =>
        LET threshold == ThresholdVerdict(news_items)
            stated == /\ MaxOf(Scores) > 700
                      /\ Cardinality({i \in DOMAIN news_items : Scores[i] > 500}) >= 2
        IN  /\ (threshold.verdict = "Likely True") <=> stated
            /\ stated => threshold.confidence = Min(900, MaxOf(Scores) + 100)
            /\ (resp.verdict \in {"Likely True", "Contradictory Reports"}) <=> stated
            /\ resp.verdict = "Likely True" =>
                   resp.confidence = Min(900, MaxOf(Scores) + 100)

\* 'Likely True' was answered with exactly two articles above 0.5 and the confidence
\* held at the cap
C16_LikelyTrueWithTwo ==
    /\ Classified
    /\ resp.verdict = "Likely True"
    /\ Cardinality({i \in DOMAIN news_items : Scores[i] > 500}) = 2
    /\ MaxOf(Scores) + 100 > 900
    /\ resp.confidence = 900

\* C17 as stated: a non-empty scored article list whose maximum similarity is 0.0 or
\* less, negative values included, is answered 'Unverified' with a low confidence.
C17_AsStated ==
    (Classified /\ news_items # <<>> /\ MaxOf(Scores) <= 0) =>
        /\ resp.verdict = "Unverified"
        /\ resp.confidence <= 100

\* C17, amended: a non-empty scored article list whose maximum similarity is exactly
\* 0.0 is answered 'Unverified' with the confidence 0.1; one whose maximum is
\* negative is answered 'Likely False' with the confidence 0.3 + (0.4 - maximum) * 0.5.
C17_ZeroUnverifiedNegativeLikelyFalse ==
    (Classified /\ news_items # <<>> /\ MaxOf(Scores) <= 0) =>
        IF MaxOf(Scores) = 0
        THEN resp.verdict = "Unverified" /\ resp.confidence = 100
        ELSE /\ resp.verdict = "Likely False"
             /\ resp.confidence = 300 + ((400 - MaxOf(Scores)) \div 2)

\* two articles, the better of them scored below 0.0, were answered 'Likely False'
C17_NegativeMaximumAnswered ==
    /\ Classified
    /\ Len(news_items) = 2
    /\ MaxOf(Scores) < 0
    /\ resp.verdict = "Likely False"

\* C18: for every source response and every requested maximum the retriever returns
\* the first min(max_results, n) of the source's n entries, in the source's order,
\* after exactly one external request; get_news_articles, which leaves the maximum
\* to the source, returns every article of the answer.
C18_PrefixInSourceOrder ==
    /\ req.op = "fetch_google_news" =>
          /\ Len(calls) = 1
          /\ Len(resp.news) = Min(req.max_results, Len(env.feed.entries))
          /\ \A i \in DOMAIN resp.news : resp.news[i] = NewsItemOf(env.feed.entries[i])
    /\ req.op = "get_news_articles" =>
          /\ Len(calls) = 1
          /\ Len(resp.articles) = Len(env.response.articles)

\* a is b with some of its members left out
RECURSIVE IsSubsequence(_, _)
IsSubsequence(a, b) ==
    IF a = <<>> THEN TRUE
    ELSE IF b = <<>> THEN FALSE
    ELSE IF Head(a) = Head(b) THEN IsSubsequence(Tail(a), Tail(b))
    ELSE IsSubsequence(a, Tail(b))

\* C19: the query of the keyword extractor has at most a fixed number of tokens, 6
\* for extract_keywords and 10, the most the specification names, for
\* query_keywords; each token is a lower-case alphabetic token of the claim that is
\* not a stop word, and the tokens keep the order they have in the claim.
C19_QueryBounded ==
    (req.op \in {"extract_keywords", "query_keywords"}) =>
        LET tokens == WordRuns(resp.text)
            words == AlphaWords(Lower(req.claim))
            stop == IF req.op = "extract_keywords" THEN stopwords ELSE nltk_stop_words
            kept == SelectIdx(words, {i \in DOMAIN words : words[i] \notin stop})
        IN  /\ Len(tokens) <= (IF req.op = "extract_keywords" THEN 6 ELSE 10)
            /\ IsSubsequence(tokens, kept)
            /\ resp.text = Join(tokens, <<" ">>)

\* the word characters of s, in their order
WordChars(s) == SelectIdx(s, {i \in DOMAIN s : IsWordChar(s[i])})

\* s is the lower-cased text with every maximal run of non-word characters replaced
\* by one blank: the word characters are those of the text, every other character is
\* a blank, and there is one blank for each run of non-word characters
Collapsed(s, text) ==
    /\ WordChars(s) = WordChars(Lower(text))
    /\ \A i \in DOMAIN s : IsWordChar(s[i]) \/ s[i] = " "
    /\ Cardinality({i \in DOMAIN s : s[i] = " "})
          = Cardinality({i \in DOMAIN text :
                            ~IsWordChar(text[i]) /\ (i = 1 \/ IsWordChar(text[i - 1]))})
    /\ WordRuns(s) = WordRuns(Lower(text))
    /\ (s # <<>> /\ text # <<>>) => (IsWordChar(s[1]) <=> IsWordChar(text[1]))

\* C20 as stated: each text normalizer returns the input lower-cased with every
\* maximal run of non-word characters replaced by exactly one blank, no word
\* character removed.
C20_AsStated ==
    (req.op \in {"clean_text", "clean", "news.clean_text"}) =>
        Collapsed(resp.text, req.claim)

\* C20, amended: clean (news testing.py) returns the input lower-cased with every
\* maximal run of non-word characters replaced by one blank; clean_text of main.py
\* returns the input lower-cased with every character that is neither a word
\* character nor whitespace deleted, the whitespace kept as it is and nothing put in;
\* clean_text of news.py returns the words of the lower-cased input that are not stop
\* words, in their order, joined by single blanks.  The first two remove no word
\* character.
C20_NormalizerByProgram ==
    /\ req.op = "clean" => Collapsed(resp.text, req.claim)
    /\ req.op = "clean_text" =>
          /\ IsSubsequence(resp.text, Lower(req.claim))
          /\ \A i \in DOMAIN resp.text : IsWordChar(resp.text[i]) \/ IsSpace(resp.text[i])
          /\ Len(resp.text) = Cardinality({i \in DOMAIN req.claim :
                                  IsWordChar(req.claim[i]) \/ IsSpace(req.claim[i])})
    /\ req.op = "news.clean_text" =>
          LET words == WordRuns(Lower(req.claim))
          IN  /\ WordRuns(resp.text)
                    = SelectIdx(words, {i \in DOMAIN words : words[i] \notin nltk_stop_words})
              /\ resp.text = Join(WordRuns(resp.text), <<" ">>)

\* clean_text of main.py answered a text with a hyphen between two letters and joined
\* the letters
C20_HyphenDeleted ==
    /\ req.op = "clean_text"
    /\ req.claim = <<"a","-","B">>
    /\ resp.text = <<"a","b">>

\* the articles with a similarity above 0.5 that the contradiction loop reads and
\* that hold one of its keywords
KeywordHits ==
    LET high == {i \in DOMAIN news_items : Scores[i] > 500}
        first_three == {i \in high : Cardinality({j \in high : j < i}) < 3}
    IN  {i \in first_three :
            \E keyword \in LoopLexicon : Contains(keyword, Lower(TextOf(i)))}

\* C21: the contradiction override leaves a verdict of the threshold policy other
\* than 'Likely True' as it is, label, confidence and summary, also when articles
\* the loop reads hold a keyword; when it fires on 'Likely True' the confidence is
\* multiplied by 0.7 once and the sentence appended once, however many of these
\* articles hold a keyword.
C21_OverrideOnlyOnLikelyTrue ==
    (Classified /\ news_items # <<>> /\ MaxOf(Scores) # 0) =>
        LET before == ThresholdVerdict(news_items)
        IN  /\ before.verdict # "Likely True" =>
                  /\ resp.verdict = before.verdict
                  /\ resp.confidence = before.confidence
                  /\ resp.analysis_summary = before.summary
            /\ (before.verdict = "Likely True" /\ KeywordHits # {}) =>
                  /\ resp.verdict = "Contradictory Reports"
                  /\ resp.confidence = (before.confidence * 700) \div 1000
                  /\ resp.analysis_summary = [before.summary EXCEPT !.however = TRUE]

\* the override fired on a list in which three of the articles read hold a keyword
C21_FiredWithThreeHits ==
    /\ Classified
    /\ Cardinality(KeywordHits) = 3
    /\ resp.verdict = "Contradictory Reports"
    /\ resp.confidence = 630

\* the /verify request being answered names, by its stored email, a user whose
\* subscription is s
VerifyOfUser(s) ==
    /\ req.op = "verify"
    /\ req.user_email # <<>>
    /\ \E i \in DOMAIN users : users[i].email = req.user_email /\ users[i].subscription = s

\* the stored usage_count of the user the request names
StoredUsage == users[CHOOSE i \in DOMAIN users : users[i].email = req.user_email].usage_count

\* the usage_count is a number greater than 0
UsageLeft == StoredUsage # Absent /\ StoredUsage[1] > 0

\* the request reached verify_statement
PipelineExecuted == "query_keywords" \in Range(calls)

\* C22 as stated: across any sequence of register, login, subscribe, update_usage and
\* verify requests, verify_statement is executed for a /verify request of a Free user
\* only if the stored usage_count is greater than 0; otherwise the request ends with
\* the daily-limit error; Premium users are never blocked by the quota.
C22_AsStated ==
    /\ VerifyOfUser("Free") =>
          /\ PipelineExecuted => UsageLeft
          /\ ~UsageLeft => resp.error_msg = "Daily limit reached!"
    /\ VerifyOfUser("Premium") => resp.error_msg # "Daily limit reached!"

\* C22, amended: verify_statement is executed for a /verify request of a Free user
\* only if the stored usage_count is greater than 0; otherwise the request ends
\* without a verification: with "No claim provided" when the claim is empty, else
\* with the daily-limit error when the usage_count is a number, else (the
\* usage_count is NULL) with a verification error.  A Premium user's request is never
\* answered with the daily-limit error, and is executed whenever its claim is not
\* empty.
C22_QuotaGuardsPipeline ==
    /\ VerifyOfUser("Free") =>
          /\ PipelineExecuted <=> (req.claim # <<>> /\ UsageLeft)
          /\ ~UsageLeft =>
                resp.error_msg = IF req.claim = <<>> THEN "No claim provided"
                                 ELSE IF StoredUsage # Absent THEN "Daily limit reached!"
                                 ELSE "Verification error"
    /\ VerifyOfUser("Premium") =>
          /\ resp.error_msg # "Daily limit reached!"
          /\ PipelineExecuted <=> req.claim # <<>>

\* a Free user whose usage_count was set to 0 was refused, on a day after the
\* registration
C22_RefusedAtZero ==
    /\ VerifyOfUser("Free")
    /\ StoredUsage = Present(0)
    /\ today > 0
    /\ resp.error_msg = "Daily limit reached!"
    /\ ~PipelineExecuted

\* the terms of the statement and of the articles of the call, as the vectorizer
\* reads them
CallDocs ==
    <<Terms(clean_text(req.claim))>>
    \o [i \in DOMAIN env.articles |-> Terms(clean_text(env.articles[i]))]

\* the largest tf-idf cosine between the statement and an article of the call
MaxCosine ==
    MaxOf([i \in DOMAIN env.articles |->
              cosine_similarity(Fit(CallDocs), CallDocs[1], CallDocs[i + 1])])

\* C23: for a non-empty article list verify_statement reports is_true exactly when
\* the largest similarity between the claim and an article is above 0.05, the
\* confidence 100 times that similarity, the number of all articles and the first
\* five of them as samples; when the vectorizing raises (no document has a term) it
\* reports False, 0.0, and the same count and samples.
C23_VerifyStatementResult ==
    (req.op = "verify_statement" /\ env.articles # <<>>) =>
        /\ resp.article_count = Len(env.articles)
        /\ Len(resp.sample_articles) = Min(5, Len(env.articles))
        /\ \A i \in DOMAIN resp.sample_articles : resp.sample_articles[i] = env.articles[i]
        /\ IF \A i \in DOMAIN CallDocs : CallDocs[i] = <<>>
           THEN resp.is_true = FALSE /\ resp.confidence = 0
           ELSE /\ resp.is_true <=> MaxCosine > 50
                /\ resp.confidence = 100 * MaxCosine

\* six articles, the best of them similar to the claim by less than 0.05: not true,
\* five samples
C23_BelowThresholdWithSix ==
    /\ req.op = "verify_statement"
    /\ Len(env.articles) = 6
    /\ resp.confidence > 0
    /\ ~resp.is_true
    /\ Len(resp.sample_articles) = 5

====
